---------------------------- MODULE Spec2Model ----------------------------
(***************************************************************************)
(* Model of the NMOS patch GUI (ST2110 BCC): the SDP to IS-05 translator   *)
(* (SDPParser), the IS-05 client (NMOSClient) and the take operation of    *)
(* the application (BCCApplication.executePatch).                          *)
(*                                                                         *)
(* JavaScript values are modelled as strings: Null is null, a port is the  *)
(* decimal text of the number parseInt returned.  An SDP text is a         *)
(* sequence of characters in which every run of characters other than CR   *)
(* and LF is abstracted to one record (the content of that line), and CR   *)
(* and LF are kept as characters.                                          *)
(***************************************************************************)
EXTENDS Integers, Sequences, FiniteSets, TLC

VARIABLES
    sdpText,            \* parseToJSON argument: the raw SDP text
    senderId,           \* parseToJSON argument
    receiverPortCount,  \* parseToJSON argument
    result,             \* what the last parseToJSON call returned or threw
    ppc,                \* position of the caller of the parser
    selectedSender,     \* BCCApplication.selectedSender (its id, or Null)
    selectedReceiver,   \* BCCApplication.selectedReceiver (its id, or Null)
    takeBtnDisabled,    \* takeBtn.disabled
    tpc,                \* position of the running executePatch
    take,               \* locals of the running executePatch / patchReceiver
    requests,           \* IS-05 requests of the current take, in issue order
    lastPatch,          \* response and outcome of the latest patchJSON call
    history,            \* StorageManager.history, newest first
    device,             \* the receivers of the receiver node, as the device holds them
    manifest,           \* the SDP text behind each sender's manifest_href
    takes,              \* number of takes started
    confirmed,          \* receivers whose staged path an earlier take has confirmed
    senderNode,         \* BCCApplication.senderNode (its id, or Null); senderClient goes with it
    receiverNode,       \* BCCApplication.receiverNode (its id, or Null)
    receiverClient,     \* BCCApplication.receiverClient: the node it talks to, or Null
    receiverList,       \* receiverNode.receivers (ids)
    loads,              \* getReceivers calls in flight: [node, kind]
    stored,             \* StorageManager.nodes: id -> receivers of the node
    node,               \* the NMOS node an NMOSClient talks to (environment)
    client,             \* NMOSClient: version, is05BaseUrl, is05Version
    cpc,                \* position of the caller of the NMOSClient
    portIdx,            \* guessIS05Endpoint: index of the port being tried
    probed,             \* base URLs asked for /x-nmos/connection/, in order
    staged,             \* what getStagedParams was answered and returned
    wpc,                \* position of RDSSubscription.connect
    rdsVersion,         \* RDSSubscription.version
    rdsClosed,          \* RDSSubscription._closed
    rdsStatus,          \* RDSSubscription._status
    connections,        \* RDSSubscription.connections: path -> readyState of its WebSocket
    posts,              \* subscription POSTs in flight: path -> who awaits it
    reconnectTimers,    \* RDSSubscription._reconnectTimers: path -> delay of the pending timer
    reconnectDelays,    \* RDSSubscription._reconnectDelays: path -> next delay
    waits,              \* delays of the reconnect timers of a path since its WebSocket last opened
    scheduled,          \* number of reconnect timers set so far
    now,                \* Date.now(), in ms since the application started
    lastUserAction,     \* BCCApplication._lastUserAction
    refreshDebounce     \* BCCApplication._refreshDebounce: target -> time its timer is due

pvars == <<sdpText, senderId, receiverPortCount, result, ppc>>
nvars == <<senderNode, receiverNode, receiverClient, receiverList, loads, stored>>
tvars == <<selectedSender, selectedReceiver, takeBtnDisabled, tpc, take,
           requests, lastPatch, history, device, manifest, takes, confirmed,
           nvars>>
cvars == <<node, client, cpc, portIdx, probed, staged>>
rvars == <<wpc, rdsVersion, rdsClosed, rdsStatus, connections, posts,
           reconnectTimers, reconnectDelays, waits, scheduled>>
gvars == <<now, lastUserAction, refreshDebounce>>
ovars == <<rvars, gvars>>
vars == <<pvars, tvars, cvars, ovars>>

-----------------------------------------------------------------------------
(* Bounds *)

MaxBlocks == 2          \* media blocks in a generated SDP
MaxTakes == 1           \* takes started in one behaviour of Spec
MaxRetakes == 2         \* takes started in one behaviour of SpecRetake
MaxLoads == 2           \* getReceivers() calls of the node handlers in flight
MaxAdds == 102          \* addHistory calls in one behaviour of SpecHistory
MaxReconnects == 7      \* reconnect timers set in one behaviour of SpecRDS
MaxTime == 4000         \* ms of application time in one behaviour of SpecGrain

-----------------------------------------------------------------------------
(* JavaScript values *)

Null == "null"
\* the two line ending characters, records like every other character
CR == [k |-> "CR"]
LF == [k |-> "LF"]

\* a variant in which only null is falsy
Truthy_OnlyNull(v) == v # Null

\* JS truthiness of a value held in a block field or passed as an id:
\* null, the number 0, NaN and the empty string are falsy.
Truthy(v) == v \notin {Null, "0", "NaN", ""}

-----------------------------------------------------------------------------
(* SDP lines.  A line content is a record; k is what startsWith() sees.    *)

MLine(port)  == [k |-> "m=", port |-> port]          \* m=video <port> RTP/AVP 96
CLine(addr)  == [k |-> "c=IN IP4", addr |-> addr]    \* c=IN IP4 <addr>/32
SFLine(addr, src) == [k |-> "a=source-filter:", dst |-> addr, src |-> src]
MidLine(tag) == [k |-> "a=mid:", tag |-> tag]        \* a=mid:<tag>
VLine        == [k |-> "v="]                         \* v=0

IsEol(ch) == ch = CR \/ ch = LF

-----------------------------------------------------------------------------
(* SDPParser.parseToJSON: line ending normalisation *)

\* sdpText.replace(/\r\n/g, '\n')
RECURSIVE ReplaceCrLf(_)
ReplaceCrLf(t) ==
    IF t = <<>> THEN <<>>
    ELSE IF Len(t) >= 2 /\ t[1] = CR /\ t[2] = LF
         THEN <<LF>> \o ReplaceCrLf(SubSeq(t, 3, Len(t)))
         ELSE <<t[1]>> \o ReplaceCrLf(Tail(t))

\* .replace(/\r/g, '\n')
RECURSIVE ReplaceCr(_)
ReplaceCr(t) ==
    IF t = <<>> THEN <<>>
    ELSE <<IF t[1] = CR THEN LF ELSE t[1]>> \o ReplaceCr(Tail(t))

NormalizeLf(t) == ReplaceCr(ReplaceCrLf(t))

\* a variant that leaves the LF characters alone
LfToCrLf_Keep(t) == t

\* normalizedSdp.replace(/\n/g, '\r\n')
RECURSIVE LfToCrLf(_)
LfToCrLf(t) ==
    IF t = <<>> THEN <<>>
    ELSE (IF t[1] = LF THEN <<CR, LF>> ELSE <<t[1]>>) \o LfToCrLf(Tail(t))

\* number of LF characters at the front of t (the greedy \n+ of the regex)
RECURSIVE LeadingLf(_)
LeadingLf(t) ==
    IF t # <<>> /\ t[1] = LF THEN 1 + LeadingLf(Tail(t)) ELSE 0

\* normalizedSdpCrlf.replace(/\r\n\r\n+/g, '\r\n'): a match is CR LF CR
\* followed by one or more LF; matches are found left to right and do not
\* overlap.
RECURSIVE CollapseBlank(_)
CollapseBlank(t) ==
    IF t = <<>> THEN <<>>
    ELSE IF Len(t) >= 4 /\ t[1] = CR /\ t[2] = LF /\ t[3] = CR /\ t[4] = LF
         THEN LET n == LeadingLf(SubSeq(t, 4, Len(t)))
              IN  <<CR, LF>> \o CollapseBlank(SubSeq(t, 4 + n, Len(t)))
         ELSE <<t[1]>> \o CollapseBlank(Tail(t))

TransportFileData(t) == CollapseBlank(LfToCrLf(NormalizeLf(t)))

\* normalizedSdp.split('\n'): the pieces between LF characters
RECURSIVE SplitLf(_, _)
SplitLf(t, cur) ==
    IF t = <<>> THEN <<cur>>
    ELSE IF t[1] = LF THEN <<cur>> \o SplitLf(Tail(t), <<>>)
         ELSE SplitLf(Tail(t), Append(cur, t[1]))

SplitLines(t) == SplitLf(t, <<>>)

-----------------------------------------------------------------------------
(* SDPParser.extractTransportParams *)

NewBlock == [destination_port |-> Null, multicast_ip |-> Null,
             source_ip |-> Null, rtp_enabled |-> TRUE]

DisabledLeg == [rtp_enabled |-> FALSE]

\* paramBlocks is a JS object: string keys in insertion order.  It is a
\* sequence of [mid, block]; assigning an existing key keeps its position.
HasKey(pb, key) == \E i \in 1..Len(pb) : pb[i].mid = key

GetKey(pb, key) == pb[CHOOSE i \in 1..Len(pb) : pb[i].mid = key].block

PutKey(pb, key, block) ==
    IF HasKey(pb, key)
    THEN [i \in 1..Len(pb) |->
            IF pb[i].mid = key THEN [mid |-> key, block |-> block] ELSE pb[i]]
    ELSE Append(pb, [mid |-> key, block |-> block])

\* the test that guards both saves of a block (lines 92 and 110)
BlockHasData(block) ==
    Truthy(block.destination_port) /\ Truthy(block.multicast_ip)

\* One iteration of the for loop; st = [paramBlocks, currentBlock, currentMid].
\* A line is the sequence of contents between two LF; startsWith() looks at
\* its first content, an empty line matches nothing.
ParseLine(st, line) ==
    IF line = <<>> THEN st
    ELSE LET l == line[1] IN
      CASE l.k = "m=" ->
             IF l.port # Null
             THEN [st EXCEPT !.currentBlock.destination_port = l.port]
             ELSE st
        [] l.k = "c=IN IP4" ->
             [st EXCEPT !.currentBlock.multicast_ip = l.addr]
        [] l.k = "a=source-filter:" ->
             [st EXCEPT !.currentBlock.source_ip = l.src]
        [] l.k = "a=mid:" ->
             [paramBlocks |->
                 IF BlockHasData(st.currentBlock) /\ Truthy(st.currentMid)
                 THEN PutKey(st.paramBlocks, st.currentMid, st.currentBlock)
                 ELSE st.paramBlocks,
              currentBlock |-> NewBlock,
              currentMid |-> l.tag]
        [] OTHER -> st

RECURSIVE ParseLines(_, _)
ParseLines(st, lines) ==
    IF lines = <<>> THEN st
    ELSE ParseLines(ParseLine(st, Head(lines)), Tail(lines))

\* SDPParser.isValidBlock
isValidBlock(block) ==
    /\ block.destination_port # Null
    /\ block.multicast_ip # Null
    /\ block.source_ip # Null

ParseError ==
    "Could not extract transport_params from SDP (missing required information)"

\* a variant that never truncates
AdjustToPortCount_NoTruncate(params, rpc) == params

\* the final adjustment of buildTransportParamsArray (lines 162-167)
AdjustToPortCount(params, rpc) ==
    IF rpc = 1 /\ Len(params) > 1 THEN <<params[1]>> ELSE params

\* a variant that never adds the disabled slot
PadSingle_NoPad(leg, rpc) == <<leg>>

\* the padding of a single leg (lines 138, 146, 153)
PadSingle(leg, rpc) ==
    IF rpc = 2 THEN <<leg, DisabledLeg>> ELSE <<leg>>

\* SDPParser.buildTransportParamsArray: [ok, params] or [ok, error]
buildTransportParamsArray(paramBlocks, lastBlock, rpc) ==
    IF HasKey(paramBlocks, "primary") /\ HasKey(paramBlocks, "secondary")
    THEN [ok |-> TRUE,
          params |-> AdjustToPortCount(<<GetKey(paramBlocks, "primary"),
                                         GetKey(paramBlocks, "secondary")>>, rpc)]
    ELSE IF HasKey(paramBlocks, "primary")
    THEN [ok |-> TRUE,
          params |-> AdjustToPortCount(
                        PadSingle(GetKey(paramBlocks, "primary"), rpc), rpc)]
    ELSE IF Len(paramBlocks) > 0
    THEN [ok |-> TRUE,
          params |-> AdjustToPortCount(PadSingle(paramBlocks[1].block, rpc), rpc)]
    ELSE IF isValidBlock(lastBlock)
    THEN [ok |-> TRUE,
          params |-> AdjustToPortCount(PadSingle(lastBlock, rpc), rpc)]
    ELSE [ok |-> FALSE, error |-> ParseError]

extractTransportParams(lines, rpc) ==
    LET st0 == [paramBlocks |-> <<>>, currentBlock |-> NewBlock,
                currentMid |-> Null]
        st1 == ParseLines(st0, lines)
        pb  == IF Truthy(st1.currentMid) /\ BlockHasData(st1.currentBlock)
               THEN PutKey(st1.paramBlocks, st1.currentMid, st1.currentBlock)
               ELSE st1.paramBlocks
    IN  buildTransportParamsArray(pb, st1.currentBlock, rpc)

\* SDPParser.parseToJSON: [ok |-> TRUE, body |-> ...] when it returns,
\* [ok |-> FALSE, error |-> ...] when it throws
parseToJSON(text, sid, rpc) ==
    LET normalizedSdp == NormalizeLf(text)
        data  == CollapseBlank(LfToCrLf(normalizedSdp))
        tp    == extractTransportParams(SplitLines(normalizedSdp), rpc)
        base  == [activation |-> [mode |-> "activate_immediate"],
                  master_enable |-> TRUE,
                  transport_file |-> [data |-> data, type |-> "application/sdp"],
                  transport_params |-> tp.params]
    IN  IF ~tp.ok THEN [ok |-> FALSE, error |-> tp.error]
        ELSE [ok |-> TRUE,
              body |-> IF Truthy(sid)
                       THEN [activation |-> base.activation,
                             master_enable |-> base.master_enable,
                             transport_file |-> base.transport_file,
                             transport_params |-> base.transport_params,
                             sender_id |-> sid]
                       ELSE base]

-----------------------------------------------------------------------------
(* The SDP texts a sender can serve.  A text is a v= line followed by up   *)
(* to MaxBlocks media blocks; block i carries the i-th port and address.   *)
(* A block has any subset of its m=, c= and a=source-filter lines, in that *)
(* order, and an optional a=mid line before or after them.                 *)

Ports == <<"5000", "5002", "5004", "5006">>
Addrs == <<"239.1.1.1", "239.1.1.2", "239.1.1.3", "239.1.1.4">>
SourceAddr == "192.168.1.10"
Mids == {"primary", "secondary"}
Eols == {<<CR, LF>>, <<LF>>, <<CR>>}

Nth(seq, i) == seq[((i - 1) % Len(seq)) + 1]

BlockShapes ==
    [fields : SUBSET {"m", "c", "sf"},
     place  : {"none"},
     tag    : {Null}]
    \cup
    [fields : SUBSET {"m", "c", "sf"},
     place  : {"first", "last"},
     tag    : Mids]

BlockLines(i, shape) ==
    (IF shape.place = "first" THEN <<MidLine(shape.tag)>> ELSE <<>>)
    \o (IF "m" \in shape.fields THEN <<MLine(Nth(Ports, i))>> ELSE <<>>)
    \o (IF "c" \in shape.fields THEN <<CLine(Nth(Addrs, i))>> ELSE <<>>)
    \o (IF "sf" \in shape.fields
        THEN <<SFLine(Nth(Addrs, i), SourceAddr)>> ELSE <<>>)
    \o (IF shape.place = "last" THEN <<MidLine(shape.tag)>> ELSE <<>>)

RECURSIVE DocLines(_, _)
DocLines(shapes, i) ==
    IF i > Len(shapes) THEN <<>>
    ELSE BlockLines(i, shapes[i]) \o DocLines(shapes, i + 1)

\* every line, the last one included, is followed by the line ending
RECURSIVE JoinLines(_, _)
JoinLines(lines, eol) ==
    IF lines = <<>> THEN <<>>
    ELSE <<Head(lines)>> \o eol \o JoinLines(Tail(lines), eol)

SdpOf(shapes, eol) == JoinLines(<<VLine>> \o DocLines(shapes, 1), eol)

SdpShapes == UNION {[1..n -> BlockShapes] : n \in 0..MaxBlocks}

SdpTexts == {SdpOf(shapes, eol) : shapes \in SdpShapes, eol \in Eols}

\* Texts with mixed line endings and blank lines: the three lines of one
\* leg, each followed by one to three line ending characters.
Separators == UNION {[1..n -> {CR, LF}] : n \in 1..3}

MixedTexts ==
    {<<MLine(Nth(Ports, 1))>> \o s1 \o <<CLine(Nth(Addrs, 1))>> \o s2
        \o <<SFLine(Nth(Addrs, 1), SourceAddr)>> \o s3 :
            s1 \in Separators, s2 \in Separators, s3 \in {<<>>, <<LF>>, <<CR, LF>>}}

SenderIds == {Null, "", "sender-1"}
PortCounts == {1, 2}

-----------------------------------------------------------------------------
(* HTTP: responses of the devices, NMOSClient.patchJSON and fetchJSON *)

\* A response is [status, text]; status 0 stands for a fetch() that rejects
\* with TypeError 'Failed to fetch' (host unreachable or CORS).
NetworkFailure == [status |-> 0, text |-> ""]

PatchResponses ==
    {[status |-> 200, text |-> ""],
     [status |-> 202, text |-> ""],
     [status |-> 204, text |-> ""],
     [status |-> 400, text |-> "invalid transport_params"],
     [status |-> 500, text |-> ""],
     NetworkFailure}

GetResponses ==
    {[status |-> 200, text |-> ""],
     [status |-> 404, text |-> ""],
     NetworkFailure}

\* Response.ok
ResponseOk(resp) == resp.status >= 200 /\ resp.status <= 299

\* Response.statusText
StatusText(status) ==
    CASE status = 400 -> "Bad Request"
      [] status = 404 -> "Not Found"
      [] status = 500 -> "Internal Server Error"
      [] OTHER -> "OK"

NoError == [msg |-> "none"]
\* reading a property of null
TypeError == [msg |-> "Cannot read properties of null"]
HttpError(status, text) == [msg |-> "HTTP", status |-> status, text |-> text]
NetworkError == [msg |-> "Network error: Cannot reach"]

\* a variant that accepts the statuses 200 and 202 only
patchJSON_Only200And202(resp) ==
    IF resp = NetworkFailure
    THEN [ok |-> FALSE, error |-> NetworkError]
    ELSE IF resp.status \notin {200, 202}
    THEN [ok |-> FALSE,
          error |-> HttpError(resp.status,
                              IF resp.text # "" THEN resp.text
                              ELSE StatusText(resp.status))]
    ELSE [ok |-> TRUE, status |-> resp.status]

\* NMOSClient.patchJSON, given the response of the device:
\* [ok |-> TRUE, status] when it returns, [ok |-> FALSE, error] when it throws
patchJSON(resp) ==
    IF resp = NetworkFailure
    THEN [ok |-> FALSE, error |-> NetworkError]
    ELSE IF ~ResponseOk(resp) /\ resp.status # 202
    THEN [ok |-> FALSE,
          error |-> HttpError(resp.status,
                              IF resp.text # "" THEN resp.text
                              ELSE StatusText(resp.status))]
    ELSE [ok |-> TRUE, status |-> resp.status]

\* NMOSClient.fetchJSON, given the response: returns the JSON or throws
fetchJSON(resp) ==
    IF resp = NetworkFailure
    THEN [ok |-> FALSE, error |-> NetworkError]
    ELSE IF ~ResponseOk(resp)
    THEN [ok |-> FALSE, error |-> HttpError(resp.status, StatusText(resp.status))]
    ELSE [ok |-> TRUE, status |-> resp.status]

\* NMOSClient.getSenderSDP, given the response of fetch(manifest_href)
getSenderSDP(resp) ==
    IF resp = NetworkFailure
    THEN [ok |-> FALSE, error |-> [msg |-> "Failed to fetch"]]
    ELSE IF ~ResponseOk(resp)
    THEN [ok |-> FALSE,
          error |-> [msg |-> "Failed to fetch SDP", status |-> resp.status,
                     text |-> StatusText(resp.status)]]
    ELSE [ok |-> TRUE, status |-> resp.status]

-----------------------------------------------------------------------------
(* NMOSClient.testPatchPath and patchReceiver *)

Senders == {"sender-1"}
Receivers == {"receiver-1", "receiver-2"}

\* The stored nodes: one serves the senders, two have receivers.  The
\* receivers above are those of node-A; node-B has one receiver of its own.
SenderNode == "node-S"
ReceiverNodes == {"node-A", "node-B"}
ReceiversOf(n) == IF n = "node-A" THEN Receivers ELSE {"receiver-3"}
AllReceivers == UNION {ReceiversOf(n) : n \in ReceiverNodes}

\* a variant that tries the path with the slash twice
Suffixes_SlashTwice == <<"/", "/">>

\* a variant that tries the bare path first
Suffixes_BareFirst == <<"", "/">>

\* for (const suffix of ['/', ''])
Suffixes == <<"/", "">>

\* basePath + suffix
StagedPath(receiverId, suffix) ==
    [resource |-> "staged", receiver |-> receiverId, suffix |-> suffix]

\* a variant that always reports the path with the trailing slash
PatchPaths_AlwaysSlash(receiverId, suffix) ==
    [stagedPath |-> StagedPath(receiverId, "/"),
     activePath |-> [resource |-> "active", receiver |-> receiverId,
                     suffix |-> "/"]]

\* the object testPatchPath returns for the suffix whose PATCH did not throw
PatchPaths(receiverId, suffix) ==
    [stagedPath |-> StagedPath(receiverId, suffix),
     activePath |-> [resource |-> "active", receiver |-> receiverId,
                     suffix |-> "/"]]

NoPath == [resource |-> "none", receiver |-> Null, suffix |-> ""]
NoPaths == [stagedPath |-> NoPath, activePath |-> NoPath]

\* the body of the probe PATCH of testPatchPath
ProbeBody == [activation |-> [mode |-> "activate_immediate"],
              master_enable |-> FALSE]

PathError == [msg |-> "Could not determine correct PATCH path for receiver"]

\* the receiverPortCount executePatch passes to patchReceiver: it passes
\* none, so the default of the parameter applies
DefaultPortCount == 2

\* a request on the wire; ok is "pending" until its response arrives, then
\* "ok" when the client call returned and "error" when it threw
Request(method, path, body) ==
    [method |-> method, path |-> path, body |-> body, ok |-> "pending"]

NoPatch == [resp |-> [status |-> -1, text |-> ""],
            outcome |-> [ok |-> FALSE, error |-> [msg |-> "none"]]]

IsProbe(req) == req.method = "PATCH" /\ req.body = ProbeBody
IsRealPatch(req) == req.method = "PATCH" /\ req.body # ProbeBody

\* the outcome of the last request is filled in when its response arrives
Answered(reqs, outcome) ==
    [reqs EXCEPT ![Len(reqs)].ok = IF outcome.ok THEN "ok" ELSE "error"]

-----------------------------------------------------------------------------
(* The receiver device *)

NewReceiver(portCount) ==
    [portCount |-> portCount, master_enable |-> TRUE, sender_id |-> Null,
     legs |-> 0]

\* number of enabled legs of a transport_params array
RECURSIVE EnabledLegs(_)
EnabledLegs(params) ==
    IF params = <<>> THEN 0
    ELSE (IF Head(params) = DisabledLeg THEN 0 ELSE 1) + EnabledLegs(Tail(params))

\* A PATCH of the staged resource that the device answers with a 2xx status
\* has been applied and, the activation being immediate, activated.
DeviceApply(dev, path, body, resp) ==
    IF ~ResponseOk(resp) THEN dev
    ELSE LET r == path.receiver
             d1 == [dev[r] EXCEPT !.master_enable = body.master_enable]
             d2 == IF "sender_id" \in DOMAIN body
                   THEN [d1 EXCEPT !.sender_id = body.sender_id] ELSE d1
             d3 == IF "transport_params" \in DOMAIN body
                   THEN [d2 EXCEPT !.legs = EnabledLegs(body.transport_params)]
                   ELSE d2
         IN  [dev EXCEPT ![r] = d3]

\* a PATCH sent to a node reaches the receiver only when it is one of that
\* node's receivers
Deliver(dev, n, path, body, resp) ==
    IF path.receiver \in ReceiversOf(n) /\ path.receiver \in DOMAIN dev
    THEN DeviceApply(dev, path, body, resp) ELSE dev

-----------------------------------------------------------------------------
(* StorageManager.addHistory (patch entries) *)

HistoryEntry(sender, receiver, status, error, patch_body, active_state) ==
    [sender |-> sender, receiver |-> receiver, status |-> status,
     error |-> error, patch_body |-> patch_body, active_state |-> active_state]

\* this.history.unshift(historyEntry), then saveHistory keeps the last 100
HistoryLimit == 100

saveHistory(h) ==
    IF Len(h) > HistoryLimit
    THEN SubSeq(h, Len(h) - HistoryLimit + 1, Len(h)) ELSE h

addHistory(h, entry) == saveHistory(<<entry>> \o h)

\* timestamp: new Date().toISOString() of the entry addHistory builds; t is
\* the time of the call
Stamped(entry, t) ==
    [f \in DOMAIN entry \cup {"timestamp"} |->
        IF f = "timestamp" THEN t ELSE entry[f]]

NoBody == [error |-> "none"]
NoActiveState == [master_enable |-> FALSE, sender_id |-> Null]

-----------------------------------------------------------------------------
(* The SDP texts the senders of the take specification serve *)

FullBlock(place, tag) ==
    [fields |-> {"m", "c", "sf"}, place |-> place, tag |-> tag]

\* Scenario A: two complete blocks, each followed by its a=mid line
SdpScenarioA ==
    SdpOf(<<FullBlock("last", "primary"), FullBlock("last", "secondary")>>,
          <<CR, LF>>)
\* two complete blocks, each preceded by its a=mid line
SdpMidFirst ==
    SdpOf(<<FullBlock("first", "primary"), FullBlock("first", "secondary")>>,
          <<CR, LF>>)
\* one complete block without a=mid
SdpSingle == SdpOf(<<FullBlock("none", Null)>>, <<CR, LF>>)
\* one block without a=source-filter
SdpNoFilter ==
    SdpOf(<<[fields |-> {"m", "c"}, place |-> "none", tag |-> Null]>>, <<CR, LF>>)

TakeSdps == {SdpScenarioA, SdpMidFirst, SdpSingle, SdpNoFilter}

\* The locals of executePatch and patchReceiver when no take runs.  sdpGets
\* counts the GETs of the sender's manifest_href the take has issued, before
\* is the state of the receivers on the device when the take started.
NoTake == [sdpSender |-> Null, receiverId |-> Null, senderId |-> Null,
           patchBody |-> NoBody, suffix |-> 0, paths |-> NoPaths,
           error |-> NoError, sdpGets |-> 0, client |-> Null,
           before |-> [r \in Receivers |-> NewReceiver(0)]]

-----------------------------------------------------------------------------
(* NMOSClient.initialize: discovery of the IS-05 base URL *)

\* A URL is [host, port, slash]: slash tells whether it ends with '/'.
NoUrl == [host |-> Null, port |-> 0, slash |-> FALSE]

Url(host, port) == [host |-> host, port |-> port, slash |-> FALSE]

\* href.replace(/\/$/, '')
StripSlash(url) == [url EXCEPT !.slash = FALSE]

\* the control types a device advertises
SrCtrlType == "urn:x-nmos:control:sr-ctrl/v1.1"
ConnType == "urn:x-manufacturer:control:connection/v1.0"
ManifestType == "urn:x-nmos:control:manifest-base/v1.3"

\* String.prototype.includes on a control type
Includes(type, needle) ==
    \/ type = SrCtrlType /\ needle \in {"sr-ctrl", "ctrl", "control"}
    \/ type = ConnType /\ needle \in {"connection", "control"}
    \/ type = ManifestType /\ needle \in {"manifest", "control"}

\* a variant that knows the 'sr-ctrl' controls only
IsIS05Control_SrCtrlOnly(c) ==
    Truthy(c.type) /\ Includes(c.type, "sr-ctrl")

\* c => c.type && (c.type.includes('sr-ctrl') || c.type.includes('connection'))
IsIS05Control(c) ==
    Truthy(c.type) /\ (Includes(c.type, "sr-ctrl") \/ Includes(c.type, "connection"))

\* device.controls.find(...): the index of the first IS-05 control, 0 if none
FindIS05Control(controls) ==
    IF \E i \in 1..Len(controls) : IsIS05Control(controls[i])
    THEN CHOOSE i \in 1..Len(controls) :
            /\ IsIS05Control(controls[i])
            /\ \A j \in 1..(i - 1) : ~IsIS05Control(controls[j])
    ELSE 0

\* parseInt(url.port || 80): url.port is '' (here 0) for the default port
BasePort(port) == IF port = 0 THEN 80 ELSE port

\* a variant that tries the standard port first
portsToTry_StandardFirst(basePort) == <<3001, basePort + 1, basePort>>

\* portsToTry of guessIS05Endpoint
portsToTry(basePort) == <<basePort + 1, 3001, basePort>>

\* testUrl of guessIS05Endpoint for the i-th port
TestUrl(is04Url, i) == Url(is04Url.host, portsToTry(BasePort(is04Url.port))[i])

\* the endpoint (host and port) a base URL names
Endpoint(url) == [host |-> url.host, port |-> url.port]

NewClient == [version |-> Null, is05BaseUrl |-> NoUrl, is05Version |-> Null]

-----------------------------------------------------------------------------
(* The nodes an NMOSClient is pointed at *)

NodeHost == "node"
Is04Ports == {0, 3000, 8080}

\* the hrefs devices advertise: the node itself on port 3001, with a
\* trailing slash, and a second interface of the node
HrefA == [host |-> NodeHost, port |-> 3001, slash |-> TRUE]
HrefB == [host |-> "node-b", port |-> 80, slash |-> FALSE]

Control(type, href) == [type |-> type, href |-> href]

Controls ==
    {Control(SrCtrlType, HrefA), Control(SrCtrlType, HrefB),
     Control(SrCtrlType, NoUrl), Control(ConnType, HrefA),
     Control(ManifestType, HrefA), Control(Null, HrefA)}

ControlLists ==
    {<<>>} \cup {<<c>> : c \in Controls}
           \cup {<<c, d>> : c \in Controls, d \in Controls}

Device(controls) == [controls |-> controls]

\* what GET /x-nmos/node/<version>/devices/ gives: an error, or a list of
\* devices; a second device is one that advertises an IS-05 control
DeviceLists ==
    {[ok |-> FALSE, list |-> <<>>], [ok |-> TRUE, list |-> <<>>]}
    \cup {[ok |-> TRUE, list |-> <<Device(cs)>>] : cs \in ControlLists}
    \cup {[ok |-> TRUE, list |-> <<Device(cs), Device(<<c>>)>>] :
            cs \in {<<>>, <<Control(ManifestType, HrefA)>>},
            c \in {Control(SrCtrlType, HrefA), Control(SrCtrlType, HrefB)}}

\* the endpoints that can be asked for the IS-05 version list
Candidates(port) ==
    {Endpoint(TestUrl(Url(NodeHost, port), i)) : i \in 1..3}
        \cup {Endpoint(HrefA), Endpoint(HrefB)}

\* A node: the port of its IS-04 URL, whether GET /x-nmos/node/ answers,
\* its device list, and the endpoints that answer GET /x-nmos/connection/
\* with a version list.
Nodes ==
    UNION {[port : {port}, nodeApi : BOOLEAN, devices : DeviceLists,
            up : SUBSET Candidates(port)] : port \in Is04Ports}

NoNode == [port |-> 0, nodeApi |-> FALSE,
           devices |-> [ok |-> FALSE, list |-> <<>>], up |-> {}]

-----------------------------------------------------------------------------
(* NMOSClient.getStagedParams *)

\* JSON values of the transport_params field
JArray(n) == [t |-> "array", length |-> n]
JNull == [t |-> "null"]

\* JS truthiness of such a value: null is falsy, every array is truthy
JsTruthy(v) == v.t # "null"

\* The answers to GET <stagedPath>: a response [status, text] with, for a
\* 200, what response.json() gives: "invalid" (it rejects), "null", or an
\* object, whose fields are then in body.
StagedOk(json, body) ==
    [status |-> 200, text |-> "", json |-> json, body |-> body]

StagedBodies ==
    {[master_enable |-> TRUE],
     [master_enable |-> TRUE, transport_params |-> JNull]}
    \cup {[master_enable |-> TRUE, transport_params |-> JArray(n)] : n \in 0..2}

StagedResponses ==
    {StagedOk("object", b) : b \in StagedBodies}
    \cup {StagedOk("null", [master_enable |-> FALSE]),
          StagedOk("invalid", [master_enable |-> FALSE]),
          [status |-> 404, text |-> ""],
          NetworkFailure}

NoStaged == [called |-> FALSE]

\* a variant without the try/catch
getStagedParams_NoCatch(resp) ==
    IF ~fetchJSON(resp).ok \/ resp.json # "object"
    THEN [called |-> TRUE, threw |-> TRUE, portCount |-> 0]
    ELSE [called |-> TRUE, threw |-> FALSE,
          portCount |-> IF "transport_params" \in DOMAIN resp.body
                           /\ JsTruthy(resp.body.transport_params)
                        THEN resp.body.transport_params.length ELSE 2]

\* NMOSClient.getStagedParams, given the response to the GET.  fetchJSON
\* throws on a failed GET and on invalid JSON, staged.transport_params throws
\* when the JSON is null; all of it is inside the try.
getStagedParams(resp) ==
    IF ~fetchJSON(resp).ok \/ resp.json # "object"
    THEN [called |-> TRUE, threw |-> FALSE, portCount |-> 2]
    ELSE [called |-> TRUE, threw |-> FALSE,
          portCount |-> IF "transport_params" \in DOMAIN resp.body
                           /\ JsTruthy(resp.body.transport_params)
                        THEN resp.body.transport_params.length ELSE 2]

\* no node is selected
NodesIdle ==
    /\ senderNode = Null
    /\ receiverNode = Null
    /\ receiverClient = Null
    /\ receiverList = {}
    /\ loads = {}
    /\ stored = <<>>

\* the sender node and node-A as receiver node are selected and loaded
NodesLoaded ==
    /\ senderNode = SenderNode
    /\ receiverNode = "node-A"
    /\ receiverClient = "node-A"
    /\ receiverList = ReceiversOf("node-A")
    /\ loads = {}
    /\ stored = [n \in {SenderNode} \cup ReceiverNodes |->
                    IF n = SenderNode THEN {} ELSE ReceiversOf(n)]

ClientIdle ==
    /\ node = NoNode
    /\ client = NewClient
    /\ cpc = "unused"
    /\ portIdx = 0
    /\ probed = <<>>
    /\ staged = [resp |-> NetworkFailure, result |-> NoStaged]

-----------------------------------------------------------------------------
(* RDSSubscription: the subscriptions to the registry *)

\* const RESOURCE_PATHS = ['/nodes', '/senders', '/receivers']
RESOURCE_PATHS == <<"/nodes", "/senders", "/receivers">>
Paths == {RESOURCE_PATHS[i] : i \in 1..Len(RESOURCE_PATHS)}

\* RDSSubscription.constructor
NewSubscription ==
    /\ rdsVersion = Null
    /\ rdsClosed = FALSE
    /\ rdsStatus = "disconnected"
    /\ connections = [p \in Paths |-> "none"]
    /\ reconnectTimers = [p \in Paths |-> 0]
    /\ reconnectDelays = [p \in Paths |-> 0]
    /\ posts = [p \in Paths |-> "none"]
    /\ waits = [p \in Paths |-> <<>>]
    /\ scheduled = 0

\* no subscription is in use
RdsIdle == NewSubscription /\ wpc = "unused"

-----------------------------------------------------------------------------
(* BCCApplication.handleGrain: the auto-refresh on grains *)

\* const suppressMs = 3000
SuppressMs == 3000
\* setTimeout(() => this.refreshReceiverNode(), 800)
DebounceMs == 800

NoTimer == -1

\* this._lastUserAction = 0 of the constructor: Date.now() counts from 1970,
\* so the application starts long after the time 0; here the clock counts
\* from the start of the application
NoUserAction == 0 - SuppressMs

GrainIdle ==
    /\ now = 0
    /\ lastUserAction = NoUserAction
    /\ refreshDebounce = [t \in {"sender", "receiver"} |-> NoTimer]

OthersIdle == RdsIdle /\ GrainIdle

-----------------------------------------------------------------------------
(* Specification of the parser alone: a caller holding some SDP text calls *)
(* parseToJSON once.                                                       *)

NoResult == [ok |-> FALSE, error |-> "not called"]

InitSDP ==
    /\ OthersIdle
    /\ sdpText \in SdpTexts \cup MixedTexts
    /\ senderId = Null
    /\ receiverPortCount = 2
    /\ result = NoResult
    /\ ppc = "ready"
    /\ selectedSender = Null
    /\ selectedReceiver = Null
    /\ takeBtnDisabled = TRUE
    /\ tpc = "idle"
    /\ take = NoTake
    /\ requests = <<>>
    /\ lastPatch = NoPatch
    /\ history = <<>>
    /\ device = [r \in Receivers |-> NewReceiver(2)]
    /\ manifest = [s \in Senders |-> <<>>]
    /\ takes = 0
    /\ confirmed = {}
    /\ NodesIdle
    /\ ClientIdle

\* parser.parseToJSON(sdpText, senderId, receiverPortCount)
ParseCall ==
    /\ ppc = "ready"
    /\ \E sid \in SenderIds, rpc \in PortCounts :
         /\ senderId' = sid
         /\ receiverPortCount' = rpc
         /\ result' = parseToJSON(sdpText, sid, rpc)
    /\ ppc' = "done"
    /\ UNCHANGED <<sdpText, tvars, cvars, ovars>>

NextSDP == ParseCall

SpecSDP == InitSDP /\ [][NextSDP]_vars

-----------------------------------------------------------------------------
(* Specification of the take: both nodes are selected and loaded, the      *)
(* operator selects senders and receivers and presses TAKE.                *)

Init ==
    /\ OthersIdle
    /\ sdpText = <<>>
    /\ senderId = Null
    /\ receiverPortCount = 2
    /\ result = NoResult
    /\ ppc = "unused"
    /\ selectedSender = Null
    /\ selectedReceiver = Null
    /\ takeBtnDisabled = TRUE
    /\ tpc = "idle"
    /\ take = NoTake
    /\ requests = <<>>
    /\ lastPatch = NoPatch
    /\ history = <<>>
    /\ device \in {[r \in Receivers |-> NewReceiver(pc[r])] :
                        pc \in [Receivers -> PortCounts]}
    /\ manifest \in [Senders -> TakeSdps]
    /\ takes = 0
    /\ confirmed = {}
    /\ NodesLoaded
    /\ ClientIdle

\* BCCApplication.updateTakeButton
updateTakeButton(sender, receiver) == ~(sender # Null /\ receiver # Null)

\* BCCApplication.selectSender
SelectSender(s) ==
    /\ senderNode # Null
    /\ selectedSender' = s
    /\ takeBtnDisabled' = updateTakeButton(s, selectedReceiver)
    /\ UNCHANGED <<selectedReceiver, tpc, take, requests, lastPatch, history, device,
                   manifest, takes, confirmed, pvars, cvars, nvars, ovars>>

\* BCCApplication.selectReceiver
SelectReceiver(r) ==
    /\ receiverNode # Null
    /\ r \in receiverList
    /\ selectedReceiver' = r
    /\ takeBtnDisabled' = updateTakeButton(selectedSender, r)
    /\ UNCHANGED <<selectedSender, tpc, take, requests, lastPatch, history, device,
                   manifest, takes, confirmed, pvars, cvars, nvars, ovars>>

\* the catch block of executePatch starts: it fetches the SDP of the sender
\* selected now a second time
\* (getSenderSDP throws at once, without a request, when there is no
\* selected sender any more)
EnterCatch(error) ==
    /\ take' = [take EXCEPT !.error = error, !.sdpSender = selectedSender,
                             !.sdpGets = IF selectedSender # Null
                                         THEN take.sdpGets + 1 ELSE take.sdpGets]
    /\ tpc' = "catchSDP"

\* the finally block of executePatch; the take is over, its locals and its
\* requests are dropped
Finally ==
    /\ takeBtnDisabled' = updateTakeButton(selectedSender, selectedReceiver)
    /\ tpc' = "idle"
    /\ take' = NoTake
    /\ requests' = <<>>
    /\ lastPatch' = NoPatch
    /\ confirmed' = IF take.paths # NoPaths
                    THEN confirmed \cup {take.receiverId} ELSE confirmed

\* BCCApplication.executePatch up to its first await: the click on TAKE.
\* One take runs at a time, and at most limit takes are started.
ExecutePatch(limit) ==
    /\ tpc = "idle"
    /\ ~takeBtnDisabled
    /\ takes < limit
    /\ selectedSender # Null /\ selectedReceiver # Null
    /\ senderNode # Null /\ receiverClient # Null
    /\ takes' = takes + 1
    /\ lastUserAction' = now
    /\ takeBtnDisabled' = TRUE
    /\ take' = [NoTake EXCEPT !.sdpSender = selectedSender, !.sdpGets = 1,
                               !.before = device]
    /\ tpc' = "getSDP"
    /\ UNCHANGED <<selectedSender, selectedReceiver, requests, lastPatch, history,
                   device, manifest, confirmed, pvars, cvars, nvars, rvars,
                   now, refreshDebounce>>

\* a variant whose patchReceiver probes the staged path before it parses
\* the SDP
SdpResponse_ProbeFirst(resp) ==
    /\ tpc = "getSDP"
    /\ LET got == getSenderSDP(resp)
           parsed == parseToJSON(manifest[take.sdpSender], selectedSender,
                                 DefaultPortCount)
           probe == Request("PATCH", StagedPath(selectedReceiver, Suffixes[1]),
                            ProbeBody)
       IN  IF ~got.ok THEN
                /\ EnterCatch(got.error)
                /\ UNCHANGED requests
           ELSE IF receiverClient = Null \/ selectedReceiver = Null
                   \/ selectedSender = Null THEN
                /\ EnterCatch(TypeError)
                /\ UNCHANGED requests
           ELSE IF ~parsed.ok THEN
                /\ EnterCatch([msg |-> parsed.error])
                /\ requests' = Append(requests, probe)
           ELSE /\ take' = [take EXCEPT !.receiverId = selectedReceiver,
                                        !.senderId = selectedSender,
                                        !.client = receiverClient,
                                        !.patchBody = parsed.body,
                                        !.suffix = 1]
                /\ requests' = Append(requests, probe)
                /\ tpc' = "probe"
    /\ UNCHANGED <<selectedSender, selectedReceiver, takeBtnDisabled, lastPatch,
                   history, device, manifest, takes, confirmed, pvars, cvars, nvars, ovars>>

\* the sender answers the GET of manifest_href; on success patchReceiver
\* starts: it builds the body and testPatchPath sends its first probe
SdpResponse(resp) ==
    /\ tpc = "getSDP"
    /\ LET got == getSenderSDP(resp)
           parsed == parseToJSON(manifest[take.sdpSender], selectedSender,
                                 DefaultPortCount)
       IN  IF ~got.ok THEN
                /\ EnterCatch(got.error)
                /\ UNCHANGED requests
           ELSE IF receiverClient = Null \/ selectedReceiver = Null
                   \/ selectedSender = Null THEN
                /\ EnterCatch(TypeError)
                /\ UNCHANGED requests
           ELSE IF ~parsed.ok THEN
                /\ EnterCatch([msg |-> parsed.error])
                /\ UNCHANGED requests
           ELSE /\ take' = [take EXCEPT !.receiverId = selectedReceiver,
                                        !.senderId = selectedSender,
                                        !.client = receiverClient,
                                        !.patchBody = parsed.body,
                                        !.suffix = 1]
                /\ requests' = Append(requests,
                      Request("PATCH", StagedPath(selectedReceiver, Suffixes[1]),
                              ProbeBody))
                /\ tpc' = "probe"
    /\ UNCHANGED <<selectedSender, selectedReceiver, takeBtnDisabled, lastPatch,
                   history, device, manifest, takes, confirmed, pvars, cvars, nvars, ovars>>

\* the device answers a probe PATCH of testPatchPath
ProbeResponse(resp) ==
    /\ tpc = "probe"
    /\ LET req == requests[Len(requests)]
           out == patchJSON(resp)
           answered == Answered(requests, out)
       IN  /\ device' = Deliver(device, take.client, req.path, req.body, resp)
           /\ lastPatch' = [resp |-> resp, outcome |-> out]
           /\ IF out.ok THEN
                 LET paths == PatchPaths(take.receiverId, Suffixes[take.suffix])
                 IN  /\ take' = [take EXCEPT !.paths = paths]
                     /\ requests' = Append(answered,
                           Request("PATCH", paths.stagedPath, take.patchBody))
                     /\ tpc' = "patch"
              ELSE IF take.suffix < Len(Suffixes) THEN
                 /\ take' = [take EXCEPT !.suffix = take.suffix + 1]
                 /\ requests' = Append(answered,
                       Request("PATCH",
                               StagedPath(take.receiverId, Suffixes[take.suffix + 1]),
                               ProbeBody))
                 /\ tpc' = "probe"
              ELSE
                 /\ requests' = answered
                 /\ EnterCatch(PathError)
    /\ UNCHANGED <<selectedSender, selectedReceiver, takeBtnDisabled, history,
                   manifest, takes, confirmed, pvars, cvars, nvars, ovars>>

\* a variant that goes on to the settle delay whatever the real PATCH gave
PatchResponse_ContinueOnError(resp) ==
    /\ tpc = "patch"
    /\ LET req == requests[Len(requests)]
           out == patchJSON(resp)
       IN  /\ device' = Deliver(device, take.client, req.path, req.body, resp)
           /\ lastPatch' = [resp |-> resp, outcome |-> out]
           /\ requests' = Answered(requests, out)
           /\ tpc' = "settle" /\ UNCHANGED take
    /\ UNCHANGED <<selectedSender, selectedReceiver, takeBtnDisabled, history,
                   manifest, takes, confirmed, pvars, cvars, nvars, ovars>>

\* the device answers the real PATCH
PatchResponse(resp) ==
    /\ tpc = "patch"
    /\ LET req == requests[Len(requests)]
           out == patchJSON(resp)
       IN  /\ device' = Deliver(device, take.client, req.path, req.body, resp)
           /\ lastPatch' = [resp |-> resp, outcome |-> out]
           /\ requests' = Answered(requests, out)
           /\ IF out.ok
              THEN tpc' = "settle" /\ UNCHANGED take
              ELSE EnterCatch(out.error)
    /\ UNCHANGED <<selectedSender, selectedReceiver, takeBtnDisabled, history,
                   manifest, takes, confirmed, pvars, cvars, nvars, ovars>>

\* setTimeout(resolve, 1000) fires: patchReceiver GETs the active resource
SettleTimeout ==
    /\ tpc = "settle"
    /\ requests' = Append(requests, Request("GET", take.paths.activePath, NoBody))
    /\ tpc' = "getActive"
    /\ UNCHANGED <<selectedSender, selectedReceiver, takeBtnDisabled, take,
                   lastPatch, history, device, manifest, takes, confirmed, pvars, cvars, nvars, ovars>>

\* what GET .../active/ returns for receiver r
ActiveState(r) ==
    IF r \in DOMAIN device
    THEN [master_enable |-> device[r].master_enable,
          sender_id |-> device[r].sender_id]
    ELSE NoActiveState

\* the entry of executePatch cannot be built or added: this.receiverNode.id
\* and this.senderNode.name throw for a node that is null, and addHistory
\* reads entry.sender.id and entry.receiver.id
EntryThrows ==
    \/ receiverNode = Null \/ senderNode = Null
    \/ selectedSender = Null \/ selectedReceiver = Null

\* the device answers the GET of the active resource; on success
\* patchReceiver returns and executePatch records the take
ActiveResponse(resp) ==
    /\ tpc = "getActive"
    /\ LET out == fetchJSON(resp)
           r == take.receiverId
       IN  /\ requests' = Answered(requests, out)
           /\ IF out.ok /\ EntryThrows
              THEN /\ EnterCatch(TypeError)
                   /\ UNCHANGED history
              ELSE IF out.ok
              THEN /\ history' = addHistory(history,
                        HistoryEntry(selectedSender, selectedReceiver, "success",
                                     NoError, take.patchBody,
                                     ActiveState(r)))
                   /\ tpc' = "refresh"
                   /\ UNCHANGED take
              ELSE /\ EnterCatch(out.error)
                   /\ UNCHANGED history
    /\ UNCHANGED <<selectedSender, selectedReceiver, takeBtnDisabled, lastPatch,
                   device, manifest, takes, confirmed, pvars, cvars, nvars, ovars>>

\* refreshReceiverConnections has settled (it never throws): finally block
RefreshDone ==
    /\ tpc = "refresh"
    /\ Finally
    /\ UNCHANGED <<selectedSender, selectedReceiver, history, device, manifest,
                   takes, pvars, cvars, nvars, ovars>>

\* the catch block: the second GET of the SDP is answered, the failure is
\* recorded with the body that could be built, then the finally block runs
CatchSdpResponse(resp) ==
    /\ tpc = "catchSDP"
    /\ LET got == getSenderSDP(resp)
           parsed == parseToJSON(manifest[take.sdpSender], selectedSender, 2)
           partialPatchBody ==
               IF take.sdpSender # Null /\ selectedSender # Null
                  /\ got.ok /\ parsed.ok
               THEN parsed.body
               ELSE [error |-> "Could not generate PATCH body"]
       IN  IF EntryThrows
           THEN \* the exception leaves the catch block: nothing is recorded
                UNCHANGED history
           ELSE history' = addHistory(history,
                   HistoryEntry(selectedSender, selectedReceiver, "failed",
                                take.error, partialPatchBody, NoActiveState))
    /\ Finally
    /\ UNCHANGED <<selectedSender, selectedReceiver, device, manifest, takes,
                   pvars, cvars, nvars, ovars>>

Handlers(limit) ==
    \/ \E s \in Senders : SelectSender(s)
    \/ \E r \in AllReceivers : SelectReceiver(r)
    \/ ExecutePatch(limit)
    \/ \E resp \in GetResponses : SdpResponse(resp)
    \/ \E resp \in PatchResponses : ProbeResponse(resp)
    \/ \E resp \in PatchResponses : PatchResponse(resp)
    \/ SettleTimeout
    \/ \E resp \in GetResponses : ActiveResponse(resp)
    \/ RefreshDone
    \/ \E resp \in GetResponses : CatchSdpResponse(resp)

Next == Handlers(MaxTakes)

Spec == Init /\ [][Next]_vars

\* the same application with the operator taking again after a take
NextRetake == Handlers(MaxRetakes)

SpecRetake == Init /\ [][NextRetake]_vars


-----------------------------------------------------------------------------
(* Specification of the IS-05 client: a new NMOSClient for some node is    *)
(* initialized; once it is ready its caller asks for the staged parameters *)
(* of a receiver.                                                          *)

ParserIdle ==
    /\ sdpText = <<>>
    /\ senderId = Null
    /\ receiverPortCount = 2
    /\ result = NoResult
    /\ ppc = "unused"

TakeIdle ==
    /\ selectedSender = Null
    /\ selectedReceiver = Null
    /\ takeBtnDisabled = TRUE
    /\ tpc = "idle"
    /\ take = NoTake
    /\ requests = <<>>
    /\ lastPatch = NoPatch
    /\ history = <<>>
    /\ device = [r \in Receivers |-> NewReceiver(2)]
    /\ manifest = [s \in Senders |-> <<>>]
    /\ takes = 0
    /\ confirmed = {}
    /\ NodesIdle

InitClient ==
    /\ OthersIdle
    /\ ParserIdle
    /\ TakeIdle
    /\ node \in Nodes
    /\ client = NewClient
    /\ cpc = "new"
    /\ portIdx = 0
    /\ probed = <<>>
    /\ staged = [resp |-> NetworkFailure, result |-> NoStaged]

Is04Url == Url(NodeHost, node.port)

\* initialize() is called: GET /x-nmos/node/ on the IS-04 URL
Initialize ==
    /\ cpc = "new"
    /\ cpc' = "getVersions"
    /\ UNCHANGED <<node, client, portIdx, probed, staged, pvars, tvars, ovars>>

\* guessIS05Endpoint starts: GET /x-nmos/connection/ on the first testUrl.
\* It is called from the try block of discoverIS05 (pc "guessTry") or from
\* its catch block (pc "guess").
StartGuess(pc) ==
    /\ portIdx' = 1
    /\ probed' = Append(probed, TestUrl(Is04Url, 1))
    /\ cpc' = pc

\* the version list of IS-04 arrives, or the GET fails and initialize throws
NodeVersionsResponse ==
    /\ cpc = "getVersions"
    /\ IF node.nodeApi
       THEN /\ client' = [client EXCEPT !.version = "v1.3"]
            /\ cpc' = "getDevices"
       ELSE /\ cpc' = "failed"
            /\ UNCHANGED client
    /\ UNCHANGED <<node, portIdx, probed, staged, pvars, tvars, ovars>>

\* discoverIS05: the device list arrives (or the GET fails)
DevicesResponse ==
    /\ cpc = "getDevices"
    /\ LET devices == node.devices
           controls == devices.list[1].controls
           found == FindIS05Control(controls)
       IN  IF devices.ok /\ Len(devices.list) > 0 /\ Len(controls) > 0
              /\ found # 0 /\ controls[found].href # NoUrl
           THEN /\ client' = [client EXCEPT
                      !.is05BaseUrl = StripSlash(controls[found].href)]
                /\ probed' = Append(probed, StripSlash(controls[found].href))
                /\ cpc' = "getIS05"
                /\ UNCHANGED portIdx
           ELSE IF devices.ok /\ Len(devices.list) > 0
           THEN \* no control to use: the fallback inside the try block
                /\ StartGuess("guessTry")
                /\ UNCHANGED client
           ELSE \* fetchJSON or 'No devices found' threw: the catch block
                /\ StartGuess("guess")
                /\ UNCHANGED client
    /\ UNCHANGED <<node, staged, pvars, tvars, ovars>>

\* discoverIS05: the advertised href answers the version-list GET or not
Is05VersionsResponse ==
    /\ cpc = "getIS05"
    /\ IF Endpoint(client.is05BaseUrl) \in node.up
       THEN /\ client' = [client EXCEPT !.is05Version = "v1.1"]
            /\ cpc' = "ready"
            /\ UNCHANGED <<portIdx, probed>>
       ELSE /\ StartGuess("guess")
            /\ UNCHANGED client
    /\ UNCHANGED <<node, staged, pvars, tvars, ovars>>

\* guessIS05Endpoint: the testUrl answers the version-list GET or not.
\* When no port answered, the call throws: thrown inside the try block of
\* discoverIS05 it is caught there and the catch block calls
\* guessIS05Endpoint again; thrown from the catch block it ends initialize.
GuessResponse ==
    /\ cpc \in {"guess", "guessTry"}
    /\ LET testUrl == TestUrl(Is04Url, portIdx)
       IN  IF Endpoint(testUrl) \in node.up
           THEN /\ client' = [client EXCEPT !.is05BaseUrl = testUrl,
                                            !.is05Version = "v1.1"]
                /\ cpc' = "ready"
                /\ UNCHANGED <<portIdx, probed>>
           ELSE IF portIdx < Len(portsToTry(BasePort(node.port)))
           THEN /\ portIdx' = portIdx + 1
                /\ probed' = Append(probed, TestUrl(Is04Url, portIdx + 1))
                /\ UNCHANGED <<client, cpc>>
           ELSE IF cpc = "guessTry"
           THEN /\ StartGuess("guess")
                /\ UNCHANGED client
           ELSE /\ cpc' = "failed"
                /\ UNCHANGED <<client, portIdx, probed>>
    /\ UNCHANGED <<node, staged, pvars, tvars, ovars>>

\* getStagedParams(receiverId, stagedPath) is called and answered
GetStagedParams(resp) ==
    /\ cpc = "ready"
    /\ staged' = [resp |-> resp, result |-> getStagedParams(resp)]
    /\ cpc' = "staged"
    /\ UNCHANGED <<node, client, portIdx, probed, pvars, tvars, ovars>>

NextClient ==
    \/ Initialize
    \/ NodeVersionsResponse
    \/ DevicesResponse
    \/ Is05VersionsResponse
    \/ GuessResponse
    \/ \E resp \in StagedResponses : GetStagedParams(resp)

SpecClient == InitClient /\ [][NextClient]_vars

-----------------------------------------------------------------------------
(* Specification of the take among the other handlers of the application:  *)
(* while a take runs the operator selects, deselects and refreshes the     *)
(* receiver node and deletes nodes.  Every stored node was added by        *)
(* handleAddNode, so it has its version, its IS-05 URL and its receiver    *)
(* list: selectReceiverNode takes the cached branch and its client is      *)
(* usable at once.                                                         *)

InitUI ==
    /\ OthersIdle
    /\ ParserIdle
    /\ ClientIdle
    /\ selectedSender = Null
    /\ selectedReceiver = Null
    /\ takeBtnDisabled = TRUE
    /\ tpc = "idle"
    /\ take = NoTake
    /\ requests = <<>>
    /\ lastPatch = NoPatch
    /\ history = <<>>
    /\ device = [r \in Receivers |-> NewReceiver(2)]
    /\ manifest = [s \in Senders |-> SdpMidFirst]
    /\ takes = 0
    /\ confirmed = {}
    /\ NodesLoaded

Load(n, kind) == [node |-> n, kind |-> kind]

\* BCCApplication.selectReceiverNode(nodeId) up to await getReceivers()
SelectReceiverNode(n) ==
    /\ n \in DOMAIN stored
    /\ Cardinality(loads \cup {Load(n, "select")}) <= MaxLoads
    /\ receiverNode' = n
    /\ receiverClient' = n
    /\ receiverList' = stored[n]
    /\ loads' = loads \cup {Load(n, "select")}
    /\ UNCHANGED <<selectedSender, selectedReceiver, takeBtnDisabled, tpc, take,
                   requests, lastPatch, history, device, manifest, takes,
                   confirmed, senderNode, stored, pvars, cvars, ovars>>

\* BCCApplication.selectReceiverNode(''): the empty option of the list
DeselectReceiverNode ==
    /\ receiverNode' = Null
    /\ receiverClient' = Null
    /\ receiverList' = {}
    /\ selectedReceiver' = Null
    /\ takeBtnDisabled' = updateTakeButton(selectedSender, Null)
    /\ UNCHANGED <<selectedSender, tpc, take, requests, lastPatch, history,
                   device, manifest, takes, confirmed, senderNode, loads,
                   stored, pvars, cvars, ovars>>

\* BCCApplication.refreshReceiverNode up to await getReceivers()
RefreshReceiverNode ==
    /\ receiverNode # Null
    /\ Cardinality(loads \cup {Load(receiverClient, "refresh")}) <= MaxLoads
    /\ loads' = loads \cup {Load(receiverClient, "refresh")}
    /\ UNCHANGED <<selectedSender, selectedReceiver, takeBtnDisabled, tpc, take,
                   requests, lastPatch, history, device, manifest, takes,
                   confirmed, senderNode, receiverNode, receiverClient,
                   receiverList, stored, pvars, cvars, ovars>>

\* getReceivers() of a selectReceiverNode or refreshReceiverNode call is
\* answered with the receivers of the node that was asked.
\* selectReceiverNode stores them under its nodeId, refreshReceiverNode under
\* the id of the receiver node of now; storage.updateNode throws for a node
\* that was deleted.  Then this.receiverNode.receivers = receivers, which
\* throws when no receiver node is selected.  The catch block changes
\* nothing.
LoadResponse(l, ok) ==
    /\ l \in loads
    /\ loads' = loads \ {l}
    /\ LET id == IF l.kind = "select" THEN l.node ELSE receiverNode
           updated == ok /\ id \in DOMAIN stored
       IN  /\ stored' = IF updated
                        THEN [stored EXCEPT ![id] = ReceiversOf(l.node)]
                        ELSE stored
           /\ receiverList' = IF updated /\ receiverNode # Null
                              THEN ReceiversOf(l.node) ELSE receiverList
    /\ UNCHANGED <<selectedSender, selectedReceiver, takeBtnDisabled, tpc, take,
                   requests, lastPatch, history, device, manifest, takes,
                   confirmed, senderNode, receiverNode, receiverClient,
                   pvars, cvars, ovars>>

\* BCCApplication.handleDeleteNode(nodeId), confirmed by the operator
DeleteNode(n) ==
    /\ n \in DOMAIN stored
    /\ stored' = [m \in DOMAIN stored \ {n} |-> stored[m]]
    /\ senderNode' = IF senderNode = n THEN Null ELSE senderNode
    /\ selectedSender' = IF senderNode = n THEN Null ELSE selectedSender
    /\ receiverNode' = IF receiverNode = n THEN Null ELSE receiverNode
    /\ receiverClient' = IF receiverNode = n THEN Null ELSE receiverClient
    /\ selectedReceiver' = IF receiverNode = n THEN Null ELSE selectedReceiver
    /\ takeBtnDisabled' = updateTakeButton(selectedSender', selectedReceiver')
    /\ UNCHANGED <<tpc, take, requests, lastPatch, history, device, manifest,
                   takes, confirmed, receiverList, loads, pvars, cvars, ovars>>

NodeHandlers ==
    \/ \E n \in ReceiverNodes : SelectReceiverNode(n)
    \/ DeselectReceiverNode
    \/ RefreshReceiverNode
    \/ \E n \in ReceiverNodes, kind \in {"select", "refresh"}, ok \in BOOLEAN :
          LoadResponse(Load(n, kind), ok)
    \/ \E n \in {SenderNode} \cup ReceiverNodes : DeleteNode(n)

NextUI == Handlers(MaxTakes) \/ NodeHandlers

SpecUI == InitUI /\ [][NextUI]_vars

-----------------------------------------------------------------------------
(* Specification of the history alone: take after take is recorded with    *)
(* StorageManager.addHistory; takes counts the calls and is their clock.   *)

InitHistory ==
    /\ OthersIdle
    /\ ParserIdle
    /\ TakeIdle
    /\ ClientIdle

\* storage.addHistory({..., status}) of executePatch
AddHistory(status) ==
    /\ takes < MaxAdds
    /\ takes' = takes + 1
    /\ history' = addHistory(history,
          Stamped(HistoryEntry("sender-1", "receiver-1", status, NoError,
                               NoBody, NoActiveState), takes + 1))
    /\ UNCHANGED <<selectedSender, selectedReceiver, takeBtnDisabled, tpc, take,
                   requests, lastPatch, device, manifest, confirmed, nvars,
                   pvars, cvars, ovars>>

NextHistory == AddHistory("success")

SpecHistory == InitHistory /\ [][NextHistory]_vars

-----------------------------------------------------------------------------
(* Specification of one RDSSubscription: the application creates it, calls *)
(* connect() once and may call disconnect() at any time afterwards; the    *)
(* registry answers the requests and opens and closes the WebSockets.      *)

\* const delay = this._reconnectDelays.get(resourcePath) || 1000
FirstDelay == 1000
\* Math.min(delay * 2, 30000)
DelayCap == 30000

Min(a, b) == IF a < b THEN a ELSE b

InitRDS ==
    /\ ParserIdle
    /\ TakeIdle
    /\ ClientIdle
    /\ GrainIdle
    /\ NewSubscription
    /\ wpc = "new"

\* RDSSubscription._setStatus
setStatus(s) == rdsStatus' = s

\* RDSSubscription._openWS: the WebSocket of the path is replaced by a new
\* one, which is connecting (the one it replaces gets no handler any more)
openWS(p) ==
    IF rdsClosed THEN UNCHANGED connections
    ELSE connections' = [connections EXCEPT ![p] = "connecting"]

\* a variant that looks at the WebSocket of the path that opened only
checkAllConnected_ThisPath(conns, p) == conns[p] = "open"

\* RDSSubscription._checkAllConnected: allOpen
checkAllConnected(conns, p) == \A q \in Paths : conns[q] = "open"

\* a variant without the cap
nextDelay_NoCap(delay) == delay * 2

\* Math.min(delay * 2, 30000)
nextDelay(delay) == Min(delay * 2, DelayCap)

\* RDSSubscription._scheduleReconnect
scheduleReconnect(p) ==
    IF rdsClosed
    THEN UNCHANGED <<reconnectTimers, reconnectDelays, waits, scheduled>>
    ELSE LET delay == IF reconnectDelays[p] # 0
                      THEN reconnectDelays[p] ELSE FirstDelay
         IN  /\ reconnectDelays' = [reconnectDelays EXCEPT ![p] = nextDelay(delay)]
             /\ reconnectTimers' = [reconnectTimers EXCEPT ![p] = delay]
             /\ waits' = [waits EXCEPT ![p] = Append(@, delay)]
             /\ scheduled' = scheduled + 1

\* RDSSubscription.connect up to its first await: GET /x-nmos/query/
Connect ==
    /\ wpc = "new"
    /\ rdsClosed' = FALSE
    /\ setStatus("connecting")
    /\ wpc' = "getVersion"
    /\ UNCHANGED <<rdsVersion, connections, posts, reconnectTimers,
                   reconnectDelays, waits, scheduled, pvars, tvars, cvars, gvars>>

\* the version list arrives and the three subscription POSTs are sent, or
\* the GET fails and connect throws
VersionResponse(ok) ==
    /\ wpc = "getVersion"
    /\ IF ok
       THEN /\ rdsVersion' = "v1.3"
            /\ posts' = [p \in Paths |-> "connect"]
            /\ wpc' = "subscribing"
            /\ UNCHANGED rdsStatus
       ELSE /\ setStatus("error")
            /\ wpc' = "failed"
            /\ UNCHANGED <<rdsVersion, posts>>
    /\ UNCHANGED <<rdsClosed, connections, reconnectTimers, reconnectDelays,
                   waits, scheduled, pvars, tvars, cvars, gvars>>

\* the POST of _createSubscription for path p is answered.  Awaited by
\* connect (Promise.all): the first failure makes connect throw.  Awaited
\* by the callback of a reconnect timer: a failure schedules the next timer.
PostResponse(p, ok) ==
    /\ posts[p] # "none"
    /\ posts' = [posts EXCEPT ![p] = "none"]
    /\ IF posts[p] = "connect"
       THEN /\ IF ok
               THEN /\ openWS(p)
                    /\ wpc' = IF wpc = "subscribing"
                                 /\ \A q \in Paths : posts'[q] # "connect"
                              THEN "done" ELSE wpc
                    /\ UNCHANGED rdsStatus
               ELSE /\ IF wpc = "subscribing"
                       THEN setStatus("error") /\ wpc' = "failed"
                       ELSE UNCHANGED <<rdsStatus, wpc>>
                    /\ UNCHANGED connections
            /\ UNCHANGED <<reconnectTimers, reconnectDelays, waits, scheduled>>
       ELSE /\ IF ok
               THEN /\ openWS(p)
                    /\ UNCHANGED <<reconnectTimers, reconnectDelays, waits,
                                   scheduled>>
               ELSE /\ rdsClosed \/ scheduled < MaxReconnects
                    /\ scheduleReconnect(p)
                    /\ UNCHANGED connections
            /\ UNCHANGED <<rdsStatus, wpc>>
    /\ UNCHANGED <<rdsVersion, rdsClosed, pvars, tvars, cvars, gvars>>

\* ws.onopen of the WebSocket of path p
WsOpen(p) ==
    /\ connections[p] = "connecting"
    /\ connections' = [connections EXCEPT ![p] = "open"]
    /\ reconnectDelays' = [reconnectDelays EXCEPT ![p] = 0]
    /\ waits' = [waits EXCEPT ![p] = <<>>]
    /\ rdsStatus' = IF checkAllConnected(connections', p)
                    THEN "connected" ELSE rdsStatus
    /\ UNCHANGED <<wpc, rdsVersion, rdsClosed, posts, reconnectTimers,
                   scheduled, pvars, tvars, cvars, gvars>>

\* the WebSocket of path p closes (it was open, or it failed to open):
\* ws.onclose
WsClose(p) ==
    /\ connections[p] \in {"connecting", "open"}
    /\ connections' = [connections EXCEPT ![p] = "closed"]
    /\ IF rdsClosed
       THEN UNCHANGED <<rdsStatus, reconnectTimers, reconnectDelays, waits,
                        scheduled>>
       ELSE /\ scheduled < MaxReconnects
            /\ setStatus("reconnecting")
            /\ scheduleReconnect(p)
    /\ UNCHANGED <<wpc, rdsVersion, rdsClosed, posts, pvars, tvars, cvars, gvars>>

\* the reconnect timer of path p fires: _createSubscription sends its POST
TimerFires(p) ==
    /\ reconnectTimers[p] # 0
    /\ reconnectTimers' = [reconnectTimers EXCEPT ![p] = 0]
    /\ posts' = IF rdsClosed THEN posts ELSE [posts EXCEPT ![p] = "reconnect"]
    /\ UNCHANGED <<wpc, rdsVersion, rdsClosed, rdsStatus, connections,
                   reconnectDelays, waits, scheduled, pvars, tvars, cvars, gvars>>

\* RDSSubscription.disconnect
Disconnect ==
    /\ wpc \notin {"unused", "new"}
    /\ ~rdsClosed
    /\ rdsClosed' = TRUE
    /\ reconnectTimers' = [p \in Paths |-> 0]
    /\ connections' = [p \in Paths |-> "none"]
    /\ setStatus("disconnected")
    /\ UNCHANGED <<wpc, rdsVersion, posts, reconnectDelays, waits, scheduled,
                   pvars, tvars, cvars, gvars>>

NextRDS ==
    \/ Connect
    \/ \E ok \in BOOLEAN : VersionResponse(ok)
    \/ \E p \in Paths, ok \in BOOLEAN : PostResponse(p, ok)
    \/ \E p \in Paths : WsOpen(p)
    \/ \E p \in Paths : WsClose(p)
    \/ \E p \in Paths : TimerFires(p)
    \/ Disconnect

SpecRDS == InitRDS /\ [][NextRDS]_vars

\* one slot per path suffices: a path never has a second POST or a second
\* timer while it has one, nor either of them beside a live WebSocket
OneChainPerPath ==
    \A p \in Paths :
        /\ reconnectTimers[p] # 0
              => posts[p] = "none" /\ connections[p] \notin {"connecting", "open"}
        /\ posts[p] # "none" => connections[p] \notin {"connecting", "open"}

-----------------------------------------------------------------------------
(* Specification of the auto-refresh: while the operator selects and takes, *)
(* time passes, grains of the registry arrive for the displayed senders    *)
(* and receivers, and the debounce timers of handleGrain fire.  (A grain   *)
(* of /nodes, and one for a resource that is not displayed, changes        *)
(* nothing.)                                                               *)

\* the clock advances in steps of half the debounce delay; a timer fires
\* when it is due
TickMs == DebounceMs \div 2

Tick ==
    /\ now + TickMs <= MaxTime
    /\ \A t \in DOMAIN refreshDebounce :
          refreshDebounce[t] = NoTimer \/ now + TickMs <= refreshDebounce[t]
    /\ now' = now + TickMs
    /\ UNCHANGED <<lastUserAction, refreshDebounce, pvars, tvars, cvars, rvars>>

\* const isSuppressed = (Date.now() - this._lastUserAction) < suppressMs
isSuppressed == (now - lastUserAction) < SuppressMs

\* BCCApplication.handleGrain(url, '/senders' or '/receivers', items) with
\* an item of the displayed node: the debounce timer is set again
HandleGrain(t) ==
    /\ IF t = "sender" THEN senderNode # Null ELSE receiverNode # Null
    /\ ~isSuppressed
    /\ refreshDebounce' = [refreshDebounce EXCEPT ![t] = now + DebounceMs]
    /\ UNCHANGED <<now, lastUserAction, pvars, tvars, cvars, rvars>>

\* the debounce timer of the senders fires: refreshSenderNode() (the list
\* of senders is the same afterwards)
SenderRefreshTimer ==
    /\ refreshDebounce["sender"] # NoTimer
    /\ now >= refreshDebounce["sender"]
    /\ refreshDebounce' = [refreshDebounce EXCEPT !["sender"] = NoTimer]
    /\ UNCHANGED <<now, lastUserAction, pvars, tvars, cvars, rvars>>

\* the debounce timer of the receivers fires: refreshReceiverNode() up to
\* await getReceivers()
ReceiverRefreshTimer ==
    /\ refreshDebounce["receiver"] # NoTimer
    /\ now >= refreshDebounce["receiver"]
    /\ refreshDebounce' = [refreshDebounce EXCEPT !["receiver"] = NoTimer]
    /\ loads' = IF receiverNode # Null
                THEN loads \cup {Load(receiverClient, "refresh")} ELSE loads
    /\ UNCHANGED <<selectedSender, selectedReceiver, takeBtnDisabled, tpc, take,
                   requests, lastPatch, history, device, manifest, takes,
                   confirmed, senderNode, receiverNode, receiverClient,
                   receiverList, stored, now, lastUserAction, pvars, cvars,
                   rvars>>

GrainHandlers ==
    \/ Tick
    \/ \E t \in {"sender", "receiver"} : HandleGrain(t)
    \/ SenderRefreshTimer
    \/ ReceiverRefreshTimer
    \/ \E ok \in BOOLEAN : LoadResponse(Load("node-A", "refresh"), ok)

NextGrain == Handlers(MaxTakes) \/ GrainHandlers

SpecGrain == InitUI /\ [][NextGrain]_vars

-----------------------------------------------------------------------------
(* Properties of the parser, checked under SpecSDP *)

\* the leg block i of a generated SDP describes
Leg(i) == [destination_port |-> Nth(Ports, i), multicast_ip |-> Nth(Addrs, i),
           source_ip |-> SourceAddr, rtp_enabled |-> TRUE]

Returned == ppc = "done" /\ result.ok
Params == result.body.transport_params

\* Scenario A with any line ending: m=, c=, a=source-filter, a=mid:primary,
\* then m=, c=, a=source-filter, a=mid:secondary
IsScenarioA(t) ==
    \E eol \in Eols :
        t = SdpOf(<<FullBlock("last", "primary"),
                    FullBlock("last", "secondary")>>, eol)

\* Scenario B: the primary block of Scenario A alone
IsScenarioB(t) ==
    \E eol \in Eols : t = SdpOf(<<FullBlock("last", "primary")>>, eol)

\* C1: an SDP of two complete blocks, each followed by its a=mid tag
\* (primary, then secondary), parsed with receiverPortCount = 2, gives
\* exactly [primary leg, secondary leg] with the data of block 1 and block 2.
C1_TwoLegsInOrder ==
    (ppc = "done" /\ receiverPortCount = 2 /\ IsScenarioA(sdpText))
        => (result.ok /\ Params = <<Leg(1), Leg(2)>>)

\* C2: an SDP of one complete block followed by a=mid:primary, parsed with
\* receiverPortCount = 2, gives [that leg, {rtp_enabled: false}].
C2_PrimaryOnlyPadded ==
    (ppc = "done" /\ receiverPortCount = 2 /\ IsScenarioB(sdpText))
        => (result.ok /\ Params = <<Leg(1), DisabledLeg>>)

\* C3: whenever parseToJSON returns a body for receiverPortCount = 1, its
\* transport_params has length 1 and its element is the first element of
\* what the same SDP gives for receiverPortCount = 2.
C3_OnePortFirstLeg ==
    (Returned /\ receiverPortCount = 1)
        => LET two == parseToJSON(sdpText, senderId, 2)
           IN  /\ Len(Params) = 1
               /\ two.ok
               /\ Params[1] = two.body.transport_params[1]

\* C3 witness: a one-port parse of an SDP that describes two enabled legs
C3_Witness ==
    /\ Returned /\ receiverPortCount = 1
    /\ LET two == parseToJSON(sdpText, senderId, 2)
       IN  /\ Len(two.body.transport_params) = 2
           /\ two.body.transport_params[2] # DisabledLeg
           /\ Params = <<two.body.transport_params[1]>>

ValidLeg(e) ==
    \/ e = DisabledLeg
    \/ /\ e.destination_port # Null
       /\ e.multicast_ip # Null
       /\ e.source_ip # Null

HasSourceFilter(t) == \E i \in 1..Len(t) : t[i].k = "a=source-filter:"

\* C4: every element of a returned transport_params is {rtp_enabled: false}
\* or a leg with port, address and source all non-null, and an SDP without
\* any a=source-filter line is rejected with the extraction error.
C4_OnlyValidLegs ==
    ppc = "done" =>
        /\ result.ok => \A i \in 1..Len(Params) : ValidLeg(Params[i])
        /\ ~HasSourceFilter(sdpText)
              => (~result.ok /\ result.error = ParseError)

-----------------------------------------------------------------------------
(* More properties of the parser, checked under SpecSDP *)

\* C17: every returned body has activation.mode 'activate_immediate',
\* master_enable true and transport_file.type 'application/sdp', and has a
\* sender_id field exactly when senderId was neither null nor the empty
\* string, then equal to it.
C17_FixedFieldsAndSenderId ==
    Returned =>
        /\ result.body.activation.mode = "activate_immediate"
        /\ result.body.master_enable = TRUE
        /\ result.body.transport_file.type = "application/sdp"
        /\ "sender_id" \in DOMAIN result.body <=> senderId \notin {Null, ""}
        /\ "sender_id" \in DOMAIN result.body => result.body.sender_id = senderId

\* C17 witness: a body returned for the empty senderId has no sender_id
C17_Witness ==
    Returned /\ senderId = "" /\ "sender_id" \notin DOMAIN result.body

\* the line contents of a text, without its line ending characters
Contents(t) == SelectSeq(t, LAMBDA ch : ~IsEol(ch))

HasLine(t, k) == \E i \in 1..Len(t) : t[i].k = k

\* the last line of kind k in t
LastLine(t, k) ==
    t[CHOOSE i \in 1..Len(t) :
        t[i].k = k /\ \A j \in (i + 1)..Len(t) : t[j].k # k]

\* an SDP without any a=mid line that has m=, c=IN IP4 and a=source-filter
NoMidOneLeg(t) ==
    /\ ~HasLine(t, "a=mid:")
    /\ HasLine(t, "m=") /\ HasLine(t, "c=IN IP4") /\ HasLine(t, "a=source-filter:")

\* C18: an SDP without a=mid that has an m=, a c=IN IP4 and an
\* a=source-filter line gives [leg] for one port and [leg, {rtp_enabled:
\* false}] for two, the leg carrying the port, address and source of those
\* lines.
C18_NoMidSingleLeg ==
    (ppc = "done" /\ NoMidOneLeg(sdpText)) =>
        /\ result.ok
        /\ Len(Params) = receiverPortCount
        /\ Params[1] = [destination_port |-> LastLine(sdpText, "m=").port,
                        multicast_ip |-> LastLine(sdpText, "c=IN IP4").addr,
                        source_ip |-> LastLine(sdpText, "a=source-filter:").src,
                        rtp_enabled |-> TRUE]
        /\ receiverPortCount = 2 => Params[2] = DisabledLeg

\* C18 witness: the v=, m=, c=, a=source-filter text parsed for two ports
C18_Witness ==
    /\ Returned /\ receiverPortCount = 2
    /\ Contents(sdpText) = <<VLine, MLine(Nth(Ports, 1)), CLine(Nth(Addrs, 1)),
                             SFLine(Nth(Addrs, 1), SourceAddr)>>
    /\ Params = <<Leg(1), DisabledLeg>>

NonEmptyLines(t) == SelectSeq(SplitLines(t), LAMBDA line : line # <<>>)

BareCr(t) == \E i \in 1..Len(t) : t[i] = CR /\ (i = Len(t) \/ t[i + 1] # LF)
BareLf(t) == \E i \in 1..Len(t) : t[i] = LF /\ (i = 1 \/ t[i - 1] # CR)

Data == result.body.transport_file.data

\* C19: with CRLF replaced by LF, transport_file.data has the non-empty
\* lines of the LF-normalized input, all of them and in the same order, and
\* the data has neither a bare CR nor a bare LF.
C19_RoundTripButBlankLines ==
    Returned =>
        /\ NonEmptyLines(ReplaceCrLf(Data)) = NonEmptyLines(NormalizeLf(sdpText))
        /\ Contents(Data) = Contents(sdpText)
        /\ ~BareCr(Data) /\ ~BareLf(Data)

\* C19 witness: an input with a bare CR, a bare LF and a blank line
C19_Witness ==
    /\ Returned
    /\ BareCr(sdpText) /\ BareLf(sdpText)
    /\ Len(SplitLines(NormalizeLf(sdpText))) > Len(SplitLines(ReplaceCrLf(Data)))

\* C20: transport_file.data never has two CRLF directly after one another.
C20_NoBlankLineLeft ==
    Returned =>
        ~\E i \in 1..(Len(Data) - 3) :
            Data[i] = CR /\ Data[i + 1] = LF /\ Data[i + 2] = CR /\ Data[i + 3] = LF

-----------------------------------------------------------------------------
(* Properties of the IS-05 client, checked under SpecClient *)

\* C14: getStagedParams never throws; it returns the length of
\* transport_params when the GET succeeded and the field is there (an
\* array), and 2 when the field is absent (or null) or the GET failed.
C14_StagedParamsNeverFails ==
    staged.result.called =>
        LET resp == staged.resp
            gotObject == ResponseOk(resp) /\ resp.json = "object"
            hasArray == /\ gotObject
                        /\ "transport_params" \in DOMAIN resp.body
                        /\ resp.body.transport_params.t = "array"
        IN  /\ ~staged.result.threw
            /\ hasArray =>
                  staged.result.portCount = resp.body.transport_params.length
            /\ ~hasArray => staged.result.portCount = 2

\* C14 witness: the staged GET was answered 404 and the port count is 2
C14_Witness ==
    /\ staged.result.called
    /\ staged.resp.status = 404
    /\ ~staged.result.threw /\ staged.result.portCount = 2

\* initialize has returned or thrown, after the IS-04 version list arrived
Discovered == cpc \in {"ready", "staged", "failed"} /\ node.nodeApi

InitializeFailed == cpc = "failed"

\* the three guessed base URLs, in the order the claim gives
GuessedUrl(i) ==
    Url(NodeHost,
        <<BasePort(node.port) + 1, 3001, BasePort(node.port)>>[i])

Answers(url) == Endpoint(url) \in node.up

\* the guessed URLs were asked in order up to the first that answered, which
\* was adopted; asked is the sequence of guessed URLs that were asked, passes
\* the number of times the three are gone through when none answers
GuessedInOrder(asked, passes) ==
    IF \E i \in 1..3 : Answers(GuessedUrl(i))
    THEN LET k == CHOOSE i \in 1..3 :
                    Answers(GuessedUrl(i))
                    /\ \A j \in 1..(i - 1) : ~Answers(GuessedUrl(j))
         IN  /\ asked = [i \in 1..k |-> GuessedUrl(i)]
             /\ ~InitializeFailed
             /\ client.is05BaseUrl = GuessedUrl(k)
    ELSE /\ asked = [i \in 1..(3 * passes) |-> GuessedUrl(((i - 1) % 3) + 1)]
         /\ InitializeFailed

\* the hrefs of the IS-05 controls of the devices of ds
AdvertisedHrefs(ds) ==
    {ds[i].controls[j].href : <<i, j>> \in
        {<<i, j>> \in (1..Len(ds)) \X (1..2) :
            /\ j <= Len(ds[i].controls)
            /\ IsIS05Control(ds[i].controls[j])
            /\ ds[i].controls[j].href # NoUrl}}

\* C15 as stated: when a device of the node advertises an IS-05 control
\* whose href answers the version-list GET, that href is the base URL and
\* no port is guessed; otherwise the ports IS-04 port + 1, 3001, IS-04 port
\* are probed in this order, the first that answers is adopted and the later
\* ones are not probed; when none answers initialize fails.
C15_HrefThenPorts ==
    Discovered =>
        LET answering == {h \in AdvertisedHrefs(node.devices.list) : Answers(h)}
        IN  IF node.devices.ok /\ answering # {}
            THEN /\ ~InitializeFailed
                 /\ client.is05BaseUrl \in {StripSlash(h) : h \in answering}
                 /\ \A i \in 1..Len(probed) :
                       probed[i] \in {StripSlash(h) :
                                        h \in AdvertisedHrefs(node.devices.list)}
            ELSE \E k \in 0..Len(probed) :
                    /\ \A i \in 1..k :
                          probed[i] \in {StripSlash(h) :
                                           h \in AdvertisedHrefs(node.devices.list)}
                    /\ GuessedInOrder(SubSeq(probed, k + 1, Len(probed)), 1)

\* the href discoverIS05 looks at: that of the first IS-05 control of the
\* first device of the list, NoUrl when there is none
FirstHref ==
    IF node.devices.ok /\ Len(node.devices.list) > 0
       /\ FindIS05Control(node.devices.list[1].controls) # 0
    THEN LET cs == node.devices.list[1].controls
         IN  cs[FindIS05Control(cs)].href
    ELSE NoUrl

\* the fallback is entered from the try block of discoverIS05 when the
\* device list was fetched, is not empty and its first device offers no
\* href; the three ports are then gone through twice before initialize fails
GuessPasses ==
    IF node.devices.ok /\ Len(node.devices.list) > 0 /\ FirstHref = NoUrl
    THEN 2 ELSE 1

\* C15 amended: only the first control of the first device whose type
\* contains 'sr-ctrl' or 'connection' is looked at; when it has an href that
\* answers the version-list GET, that href (without a trailing slash) is the
\* base URL and nothing else is asked; otherwise the ports IS-04 port + 1,
\* 3001, IS-04 port are probed in this order, the first that answers is
\* adopted and the later ones are not probed; when none answers initialize
\* fails, after a second round over the same three ports when the device
\* list was fetched and its first device offers no such href.
C15_FirstControlThenPorts ==
    Discovered =>
        IF FirstHref # NoUrl /\ Answers(FirstHref)
        THEN /\ ~InitializeFailed
             /\ client.is05BaseUrl = StripSlash(FirstHref)
             /\ probed = <<StripSlash(FirstHref)>>
        ELSE IF FirstHref # NoUrl
        THEN /\ Len(probed) >= 2 /\ probed[1] = StripSlash(FirstHref)
             /\ GuessedInOrder(Tail(probed), 1)
        ELSE GuessedInOrder(probed, GuessPasses)

\* C15 witness: the advertised href did not answer, the port IS-04 + 1 did
\* not either, port 3001 did and was adopted, the IS-04 port was not asked
C15_Witness ==
    /\ cpc = "ready"
    /\ FirstHref = HrefB
    /\ probed = <<HrefB, GuessedUrl(1), GuessedUrl(2)>>
    /\ client.is05BaseUrl = GuessedUrl(2)
    /\ Answers(GuessedUrl(3))

-----------------------------------------------------------------------------
(* Properties of the take, checked under Spec and SpecRetake *)

Probes == SelectSeq(requests, IsProbe)

\* C5: the body of the real PATCH never has more transport_params than the
\* receiver has ports (the length of its staged transport_params); a
\* one-port receiver gets exactly one.
C5_BodyFitsPortCount ==
    \A i \in 1..Len(requests) :
        IsRealPatch(requests[i]) =>
            Len(requests[i].body.transport_params)
                <= device[requests[i].path.receiver].portCount

\* C6: testPatchPath probes the staged path with the trailing slash first and
\* without it second, only after the first probe failed; the path it returns
\* is that of the first probe that did not fail, and it throws the path error
\* exactly when both probes failed.
C6_ProbeOrder ==
    /\ Len(Probes) <= 2
    /\ \A i \in 1..Len(Probes) :
          /\ Probes[i].body = ProbeBody
          /\ Probes[i].path.resource = "staged"
    /\ Len(Probes) >= 1 => Probes[1].path.suffix = "/"
    /\ Len(Probes) = 2 =>
          /\ Probes[2].path.suffix = ""
          /\ Probes[1].ok = "error"
          /\ Probes[2].path.receiver = Probes[1].path.receiver
    /\ \A i \in 1..Len(Probes) :
          Probes[i].ok = "ok" => take.paths.stagedPath = Probes[i].path
    /\ take.paths # NoPaths =>
          \E i \in 1..Len(Probes) :
              Probes[i].ok = "ok" /\ Probes[i].path = take.paths.stagedPath
    /\ take.error = PathError <=>
          (Len(Probes) = 2 /\ Probes[1].ok = "error" /\ Probes[2].ok = "error")

\* C6 witness: both probes failed and the take fails with the path error
C6_Witness ==
    /\ Len(Probes) = 2
    /\ Probes[1].ok = "error" /\ Probes[2].ok = "error"
    /\ take.error = PathError
    /\ tpc = "catchSDP"

\* C7: the real PATCH follows the probe that was accepted and goes to the
\* very path of that probe (the path without slash when the probe with the
\* slash failed).
C7_RealPatchOnProbedPath ==
    \A i \in 1..Len(requests) :
        IsRealPatch(requests[i]) =>
            /\ i > 1
            /\ IsProbe(requests[i - 1])
            /\ requests[i - 1].ok = "ok"
            /\ requests[i].path = requests[i - 1].path
            /\ \A j \in 1..(i - 2) :
                  IsProbe(requests[j]) /\ requests[j].ok = "error"

\* C7 witness (Scenario E): the probe with the slash failed, the one without
\* was accepted, and the real PATCH went to the path without slash
C7_Witness ==
    /\ Len(requests) = 3
    /\ requests[1].ok = "error" /\ requests[1].path.suffix = "/"
    /\ requests[2].ok = "ok" /\ requests[2].path.suffix = ""
    /\ IsRealPatch(requests[3]) /\ requests[3].path.suffix = ""

\* C8: once a take has confirmed the staged path of a receiver, later takes
\* to that receiver send no probe PATCH.
C8_NoProbeOnceConfirmed ==
    \A i \in 1..Len(requests) :
        IsProbe(requests[i]) => requests[i].path.receiver \notin confirmed

\* C9: a take whose real PATCH returned success is recorded in the history
\* with status 'success', whatever the GET of the active resource gives.
C9_VerifyIsBestEffort ==
    [][(/\ history' # history
        /\ \E i \in 1..Len(requests) :
              IsRealPatch(requests[i]) /\ requests[i].ok = "ok")
          => Head(history').status = "success"]_vars

PatchAnswered == lastPatch.resp.status >= 0

\* C10 as stated: patchJSON returns exactly for status 200 and 202, and
\* throws an error carrying the status and the body text for any other.
C10_SuccessOnly200Or202 ==
    (PatchAnswered /\ lastPatch.resp # NetworkFailure) =>
        /\ lastPatch.outcome.ok <=> lastPatch.resp.status \in {200, 202}
        /\ ~lastPatch.outcome.ok =>
              /\ lastPatch.outcome.error.status = lastPatch.resp.status
              /\ lastPatch.outcome.error.text = lastPatch.resp.text

\* C10 amended: patchJSON returns exactly for the statuses 200..299 (202
\* included), and for any other status throws an error carrying the status
\* and the body text, or the status text when the body is empty.
C10_SuccessAny2xx ==
    (PatchAnswered /\ lastPatch.resp # NetworkFailure) =>
        /\ lastPatch.outcome.ok <=>
              (lastPatch.resp.status >= 200 /\ lastPatch.resp.status <= 299)
        /\ lastPatch.outcome.ok => lastPatch.outcome.status = lastPatch.resp.status
        /\ ~lastPatch.outcome.ok =>
              /\ lastPatch.outcome.error.msg = "HTTP"
              /\ lastPatch.outcome.error.status = lastPatch.resp.status
              /\ lastPatch.outcome.error.text =
                    (IF lastPatch.resp.text # "" THEN lastPatch.resp.text
                     ELSE StatusText(lastPatch.resp.status))

\* C10 witness: a PATCH answered 204 is a success, one answered 400 throws
\* with the body text
C10_Witness ==
    /\ lastPatch.resp.status = 204
    /\ lastPatch.outcome.ok
    /\ tpc = "settle"

IsActiveGet(req) == req.method = "GET" /\ req.path.resource = "active"

\* the take has failed: the catch block of executePatch is running
TakeFailed == tpc = "catchSDP"

C12_FailedTakeLeavesDevice == TakeFailed => device = take.before

RealPatches == SelectSeq(requests, IsRealPatch)

\* C13 as stated: in one take the real PATCH is sent at most once, each
\* staged path variant is probed at most once, and no request of the take is
\* issued a second time after a failure.
C13_NothingReissued ==
    /\ Len(RealPatches) <= 1
    /\ \A i, j \in 1..Len(Probes) : i # j => Probes[i].path # Probes[j].path
    /\ TakeFailed => requests = <<>> \/ requests[Len(requests)].ok = "error"
    /\ take.sdpGets <= 1

\* C13 amended: in one take the real PATCH is sent at most once, each staged
\* path variant is probed at most once, and after a failure no request is
\* sent to the receiver any more; the only request issued a second time is
\* the GET of the sender's SDP, once, by the catch block of a failed take.
C13_OnlySdpFetchedAgain ==
    /\ Len(RealPatches) <= 1
    /\ \A i, j \in 1..Len(Probes) : i # j => Probes[i].path # Probes[j].path
    /\ TakeFailed => requests = <<>> \/ requests[Len(requests)].ok = "error"
    /\ take.sdpGets <= 2
    /\ take.sdpGets = 2 <=> TakeFailed

\* C13 witness: the real PATCH was refused; the take has failed after two
\* probes and one real PATCH, and fetches the SDP a second time
C13_Witness ==
    /\ TakeFailed
    /\ Len(Probes) = 2 /\ Len(RealPatches) = 1
    /\ requests[3].ok = "error"
    /\ take.sdpGets = 2

\* C16: the history entry of a take that failed because the SDP has no valid
\* leg holds the raw SDP text in patch_body.transport_file.data.
C16_FailedEntryKeepsSdp ==
    \A i \in 1..Len(history) :
        (history[i].status = "failed" /\ history[i].error = [msg |-> ParseError])
            => /\ "transport_file" \in DOMAIN history[i].patch_body
               /\ history[i].patch_body.transport_file.data
                     = TransportFileData(manifest[history[i].sender])

-----------------------------------------------------------------------------
(* Properties of the take, continued *)

\* C22: when the take has failed because the sender's SDP yields no usable
\* transport parameters, no request at all (neither the master_enable:false
\* probe nor the real PATCH) has been sent to the receiver, and the device
\* is as it was when the take started.
C22_ParseErrorBeforeAnyPatch ==
    take.error = [msg |-> ParseError]
        => /\ requests = <<>>
           /\ take.receiverId = Null
           /\ device = take.before

\* C22 witness: a take has fetched an SDP without valid leg, failed with the
\* parsing error and is in its catch block, nothing sent to the receiver
C22_Witness ==
    /\ tpc = "catchSDP"
    /\ take.error = [msg |-> ParseError]
    /\ ~parseToJSON(manifest[take.sdpSender], selectedSender, DefaultPortCount).ok
    /\ requests = <<>>

-----------------------------------------------------------------------------
(* Properties of the IS-05 client, continued (SpecClient) *)

\* the version-list GETs of guessIS05Endpoint so far: all of probed but the
\* GET of the advertised href, which comes first when there is one
GuessedRequests ==
    IF probed = <<>> THEN <<>>
    ELSE IF FirstHref # NoUrl THEN Tail(probed) ELSE probed

\* C23: during one initialize no guessed candidate (host, port) is requested
\* twice: the ports are gone through at most once and no port comes twice.
C23_EachCandidateOnce ==
    \A i, j \in 1..Len(GuessedRequests) :
        i # j => GuessedRequests[i] # GuessedRequests[j]

\* C24 as stated: when some device of the list, in any position, advertises
\* a control of type 'sr-ctrl' or 'connection' whose href answers the
\* version-list GET, initialize adopts such an href as the IS-05 base URL
\* and guesses no port.
C24_AnyDeviceHref ==
    (Discovered /\ node.devices.ok) =>
        LET answering == {h \in AdvertisedHrefs(node.devices.list) : Answers(h)}
        IN  answering # {} =>
                /\ ~InitializeFailed
                /\ client.is05BaseUrl \in {StripSlash(h) : h \in answering}
                /\ portIdx = 0

\* C24 amended: when the first device of the list advertises a control of
\* type 'sr-ctrl' or 'connection', and the first such control of that device
\* has an href that answers the version-list GET, initialize adopts that
\* href (without a trailing slash) as the IS-05 base URL and guesses no port.
C24_FirstDeviceHref ==
    (Discovered /\ node.devices.ok /\ Len(node.devices.list) > 0) =>
        LET cs == node.devices.list[1].controls
        IN  \A j \in 1..Len(cs) :
                ( /\ cs[j].type \in {SrCtrlType, ConnType}
                  /\ \A i \in 1..(j - 1) : cs[i].type \notin {SrCtrlType, ConnType}
                  /\ cs[j].href # NoUrl
                  /\ Answers(cs[j].href) )
                => /\ ~InitializeFailed
                   /\ client.is05BaseUrl = StripSlash(cs[j].href)
                   /\ portIdx = 0

\* C24 witness: the first device lists a manifest control and then a
\* 'connection' control whose href answers; initialize has returned with
\* that href, no port guessed
C24_Witness ==
    /\ cpc = "ready"
    /\ node.devices.ok
    /\ node.devices.list =
          <<Device(<<Control(ManifestType, HrefA), Control(ConnType, HrefA)>>)>>
    /\ Answers(HrefA)
    /\ client.is05BaseUrl = StripSlash(HrefA)
    /\ probed = <<StripSlash(HrefA)>>
    /\ portIdx = 0

\* C25: once initialize has returned or thrown, the client has an IS-05 base
\* URL only together with an IS-05 version, read from the version list that
\* this base URL served; a failed discovery leaves no base URL.
C25_BaseUrlOnlyWithVersion ==
    (cpc \in {"ready", "staged", "failed"} /\ client.is05BaseUrl # NoUrl)
        => /\ client.is05Version # Null
           /\ Answers(client.is05BaseUrl)

-----------------------------------------------------------------------------
(* Properties of the take, continued (Spec) *)

\* C26: the active path testPatchPath returns has the trailing slash exactly
\* when the staged path it accepted has it.
C26_ActiveFollowsStaged ==
    take.paths # NoPaths
        => take.paths.activePath.suffix = take.paths.stagedPath.suffix

\* C28: the history entry a take appends names the sender and the receiver
\* whose ids the take put into its PATCH requests, also when the operator
\* has selected another sender or receiver since.
C28_EntryNamesPatched ==
    [][(history' # history /\ take.receiverId # Null)
          => /\ Head(history').receiver = take.receiverId
             /\ Head(history').sender = take.senderId]_vars

\* C30: from the start of executePatch until its finally block the TAKE
\* button is disabled, whatever the operator selects in between.
C30_TakeButtonDisabledInFlight == tpc # "idle" => takeBtnDisabled

-----------------------------------------------------------------------------
(* Properties of the take among the node handlers (SpecUI) *)

\* C27: every take that has passed the guard of executePatch has appended
\* exactly one history entry by the time it is over, whatever handlers ran
\* in between: a 'success' entry as soon as patchReceiver has returned, a
\* 'failed' entry otherwise.
C27_OneEntryPerTake ==
    /\ tpc = "idle" => Len(history) = takes
    /\ tpc = "refresh" => Len(history) = takes /\ history[1].status = "success"
    /\ tpc \notin {"idle", "refresh"} => Len(history) = takes - 1

\* C29: once a take has sent a PATCH, the receiver named in its requests is
\* one of the receivers of the node whose IS-05 endpoint the requests go
\* to, whatever receiver nodes were selected, deselected or refreshed before.
C29_ReceiverOfPatchedNode ==
    take.receiverId # Null => take.receiverId \in ReceiversOf(take.client)

\* C31: once every getReceivers() call of the receiver-node handlers has
\* completed, the receiver list held for the current receiver node is the
\* list of that node, in whatever order the responses have arrived.
C31_ListOfCurrentNode ==
    (loads = {} /\ receiverNode # Null)
        => receiverList = ReceiversOf(receiverNode)

-----------------------------------------------------------------------------
(* Properties of the history (SpecHistory) *)

\* C32: after any number of addHistory calls the history holds at most 100
\* entries, and they are the most recently added ones, newest first: the
\* entry just added is at index 0, the one added before it at index 1, and
\* so on.
C32_NewestHundredFirst ==
    /\ Len(history) <= HistoryLimit
    /\ Len(history) = IF takes < HistoryLimit THEN takes ELSE HistoryLimit
    /\ \A i \in 1..Len(history) : history[i].timestamp = takes - i + 1

-----------------------------------------------------------------------------
(* Properties of the RDS subscription (SpecRDS) *)

\* the i-th wait of the claim: 1000 ms, then twice the wait before, but
\* never more than 30000 ms
RECURSIVE Backoff(_)
Backoff(i) ==
    IF i = 1 THEN 1000
    ELSE IF 2 * Backoff(i - 1) > 30000 THEN 30000 ELSE 2 * Backoff(i - 1)

\* C33: the reconnect timers of a path that has not reopened wait 1000 ms,
\* 2000 ms, 4000 ms, ..., twice the wait before and never more than
\* 30000 ms; after the WebSocket of the path has opened, the next wait of
\* the path is 1000 ms again.
C33_BoundedBackoff ==
    \A p \in Paths :
        /\ \A i \in 1..Len(waits[p]) : waits[p][i] = Backoff(i)
        /\ reconnectTimers[p] # 0
              => waits[p] # <<>> /\ reconnectTimers[p] = waits[p][Len(waits[p])]

\* C33 witness: a path has waited 1000, 2000, 4000, 8000 and 16000 ms and
\* then twice 30000 ms without reopening
C33_Witness ==
    \E p \in Paths :
        /\ waits[p] = <<1000, 2000, 4000, 8000, 16000, 30000, 30000>>
        /\ reconnectTimers[p] = 30000

\* C34: after disconnect() of a subscription that has sent its subscription
\* POSTs the status is 'disconnected', no path has a WebSocket and no
\* reconnect timer is pending, whatever requests complete afterwards.
C34_StaysStopped ==
    (rdsClosed /\ rdsVersion # Null) =>
        /\ rdsStatus = "disconnected"
        /\ \A p \in Paths : connections[p] = "none" /\ reconnectTimers[p] = 0

\* C35: whenever the status is 'connected', each of the three paths has a
\* WebSocket that is open.
C35_ConnectedMeansAllOpen ==
    rdsStatus = "connected" => \A p \in Paths : connections[p] = "open"

\* C35 witness: a WebSocket had closed and its path was subscribed again;
\* the three WebSockets are open and the status is 'connected' again
C35_Witness ==
    /\ rdsStatus = "connected"
    /\ scheduled > 0
    /\ \A p \in Paths : connections[p] = "open"

\* C36: while the subscription is connected to a registry whose version it
\* knows and has not been disconnected, every path without an open or
\* opening WebSocket has a subscription POST in flight or a reconnect timer
\* pending.
C36_EveryPathBeingServed ==
    (rdsVersion # Null /\ ~rdsClosed) =>
        \A p \in Paths :
            \/ connections[p] \in {"connecting", "open"}
            \/ posts[p] # "none"
            \/ reconnectTimers[p] # 0

-----------------------------------------------------------------------------
(* Properties of the auto-refresh (SpecGrain) *)

\* C37: no refresh of the sender or receiver list started by a grain runs
\* less than 3000 ms after a take was started.
C37_NoRefreshAfterAction ==
    [][\A t \in {"sender", "receiver"} :
          (refreshDebounce[t] # NoTimer /\ refreshDebounce'[t] = NoTimer)
              => now - lastUserAction >= SuppressMs]_vars

=============================================================================
